-------------------------- MODULE DiscussionProofs --------------------------
(***************************************************************************)
(* Theorems about Discussion, for any clients, requests, scripts of        *)
(* commands, limits and numbers of faults.                                 *)
(***************************************************************************)
EXTENDS Discussion, CollectionProofs

-----------------------------------------------------------------------------
\* Folds.

\* One step of the room's fold, or of a replica's, which ignores what it knows.
Stepped(all, snapshot, entry) == IF all THEN Reduce(snapshot, entry) ELSE Received(snapshot, entry)

\* The recursion of FoldLeft, on the first n entries.
FoldsBy(F, all, base, entries, n) ==
  F = [s \in SUBSET (1 .. n) |->
         IF s = {} THEN base ELSE LET x == Max(s) IN Stepped(all, F[s \ {x}], entries[x])]

\* A nonempty set of positions has a last one.
LEMMA LastPosition ==
  ASSUME NEW n \in Nat, NEW s \in SUBSET (1 .. n), s # {}
  PROVE  Max(s) \in s /\ \A x \in s : Max(s) >= x
<1> DEFINE S == {k \in Nat : \E x \in s : x + k = n}
<1>0. \A x \in s : x \in Nat /\ x <= n
  OBVIOUS
<1>1. S \in SUBSET Nat /\ S # {}
  <2>1. PICK x \in s : TRUE
    OBVIOUS
  <2>2. n - x \in Nat /\ x + (n - x) = n
    BY <1>0
  <2>3. n - x \in S
    BY <2>2
  <2>4. QED
    BY <2>3
<1>2. PICK least \in S : \A y \in S : least <= y
  BY <1>1, LeastNumber
<1>3. PICK x \in s : x + least = n
  BY <1>2
<1>4. \A y \in s : x >= y
  <2>1. ASSUME NEW y \in s
        PROVE  x >= y
    <3>1. x \in Nat /\ y \in Nat /\ y <= n
      BY <1>0
    <3>2. n - y \in Nat /\ y + (n - y) = n
      BY <3>1
    <3>3. n - y \in S
      BY <3>2
    <3>4. least <= n - y
      BY <1>2, <3>3
    <3>5. least \in Nat
      BY <1>2
    <3>6. QED
      BY <1>3, <3>1, <3>4, <3>5
  <2>2. QED
    BY <2>1
<1>5. QED
  BY <1>4 DEF Max

\* The recursion defines a function.
LEMMA FoldsExist ==
  ASSUME NEW all, NEW base, NEW entries, NEW n \in Nat
  PROVE  \E F : FoldsBy(F, all, base, entries, n)
<1> DEFINE S == {m \in Nat : \E F : FoldsBy(F, all, base, entries, m)}
<1>1. 0 \in S
  <2> DEFINE F == [s \in SUBSET (1 .. 0) |-> base]
  <2>1. \A s \in SUBSET (1 .. 0) : s = {}
    OBVIOUS
  <2>2. FoldsBy(F, all, base, entries, 0)
    BY <2>1 DEF FoldsBy
  <2>3. QED
    BY <2>2
<1>2. ASSUME NEW m \in Nat, m \in S
      PROVE  m + 1 \in S
  <2>1. PICK F : FoldsBy(F, all, base, entries, m)
    BY <1>2
  <2> DEFINE G == [s \in SUBSET (1 .. m + 1) |->
                     IF m + 1 \in s THEN Stepped(all, F[s \ {m + 1}], entries[m + 1]) ELSE F[s]]
  <2>2. ASSUME NEW s \in SUBSET (1 .. m + 1)
        PROVE  G[s] = IF s = {} THEN base ELSE LET x == Max(s) IN Stepped(all, G[s \ {x}], entries[x])
    <3>1. CASE m + 1 \in s
      <4>0. m + 1 \in Nat /\ s # {} /\ \A x \in s : x \in Nat /\ x <= m + 1
        BY <3>1
      <4>1. Max(s) \in s /\ \A x \in s : Max(s) >= x
        BY <4>0, LastPosition
      <4>a. Max(s) \in Nat /\ Max(s) <= m + 1
        BY <4>0, <4>1
      <4>b. Max(s) >= m + 1
        BY <3>1, <4>1
      <4>2. Max(s) = m + 1
        BY <4>a, <4>b
      <4>3. s \ {m + 1} \in SUBSET (1 .. m + 1) /\ m + 1 \notin s \ {m + 1}
        OBVIOUS
      <4>4. G[s \ {m + 1}] = F[s \ {m + 1}]
        BY <4>3
      <4>5. QED
        BY <3>1, <4>2, <4>4
    <3>2. CASE m + 1 \notin s
      <4>1. s \in SUBSET (1 .. m)
        BY <3>2
      <4>2. G[s] = IF s = {} THEN base ELSE LET x == Max(s) IN Stepped(all, F[s \ {x}], entries[x])
        BY <2>1, <3>2, <4>1 DEF FoldsBy
      <4>3. \A x : G[s \ {x}] = F[s \ {x}]
        BY <3>2
      <4>4. QED
        BY <4>2, <4>3
    <3>3. QED
      BY <3>1, <3>2
  <2>3. FoldsBy(G, all, base, entries, m + 1)
    BY <2>2 DEF FoldsBy
  <2>4. QED
    BY <2>3
<1>3. QED
  BY <1>1, <1>2, SetInduction

\* It only looks at the entries at the positions it is asked about.
LEMMA FoldsAgree ==
  ASSUME NEW all, NEW base, NEW one, NEW other, NEW m \in Nat, NEW n \in Nat, m <= n, NEW F, NEW G,
         FoldsBy(F, all, base, one, m), FoldsBy(G, all, base, other, n),
         \A i \in 1 .. m : one[i] = other[i]
  PROVE  F[1 .. m] = G[1 .. m]
<1> DEFINE S == {k \in Nat : k <= m => \A s \in SUBSET (1 .. k) : F[s] = G[s]}
<1>a. SUBSET (1 .. m) \subseteq SUBSET (1 .. n)
  OBVIOUS
<1>b. (1 .. 0) = {}
  OBVIOUS
<1>0. \A s \in SUBSET (1 .. m) :
        /\ F[s] = IF s = {} THEN base ELSE LET x == Max(s) IN Stepped(all, F[s \ {x}], one[x])
        /\ G[s] = IF s = {} THEN base ELSE LET x == Max(s) IN Stepped(all, G[s \ {x}], other[x])
  BY <1>a DEF FoldsBy
<1>1. 0 \in S
  <2>1. ASSUME NEW s \in SUBSET (1 .. 0)
        PROVE  s = {} /\ s \in SUBSET (1 .. m)
    BY <1>b
  <2>2. QED
    BY <1>0, <2>1
<1>2. ASSUME NEW k \in Nat, k \in S
      PROVE  k + 1 \in S
  <2>1. ASSUME k + 1 <= m, NEW s \in SUBSET (1 .. k + 1)
        PROVE  F[s] = G[s]
    <3>0. s \in SUBSET (1 .. m) /\ \A t \in SUBSET (1 .. k) : F[t] = G[t]
      BY <1>2, <2>1
    <3>1. CASE s = {}
      BY <3>0, <3>1, <1>0
    <3>2. CASE s # {}
      <4>0. k + 1 \in Nat /\ \A x \in s : x \in Nat /\ 1 <= x /\ x <= k + 1
        OBVIOUS
      <4>1. Max(s) \in s /\ \A x \in s : Max(s) >= x
        BY <3>2, <4>0, LastPosition
      <4>2. ASSUME NEW x \in s \ {Max(s)}
            PROVE  x \in 1 .. k
        <5>1. Max(s) \in Nat /\ Max(s) <= k + 1
          BY <4>0, <4>1
        <5>2. x \in Nat /\ 1 <= x /\ x <= k + 1 /\ Max(s) >= x /\ x # Max(s)
          BY <4>0, <4>1
        <5>3. QED
          BY <5>1, <5>2
      <4>a. s \ {Max(s)} \in SUBSET (1 .. k)
        BY <4>2
      <4>b. Max(s) \in 1 .. m
        BY <3>0, <4>1
      <4>3. F[s \ {Max(s)}] = G[s \ {Max(s)}] /\ one[Max(s)] = other[Max(s)]
        BY <3>0, <4>a, <4>b
      <4>4. QED
        BY <1>0, <3>0, <3>2, <4>3
    <3>3. QED
      BY <3>1, <3>2
  <2>2. QED
    BY <2>1
<1>3. Nat \subseteq S
  BY <1>1, <1>2, SetInduction
<1>4. QED
  BY <1>3

\* What FoldLeft computes for either fold.
Folded(all, base, entries) ==
  IF all THEN FoldLeft(Reduce, base, entries) ELSE FoldLeft(Received, base, entries)

LEMMA FoldedBy ==
  ASSUME NEW E, NEW entries \in Seq(E), NEW all \in BOOLEAN, NEW base
  PROVE  \E F : FoldsBy(F, all, base, entries, Len(entries)) /\ Folded(all, base, entries) = F[1 .. Len(entries)]
<1>0. DOMAIN entries = 1 .. Len(entries) /\ Len(entries) \in Nat
  OBVIOUS
<1>1. PICK F : FoldsBy(F, all, base, entries, Len(entries))
  BY <1>0, FoldsExist
<1>2. CASE all
  <2> DEFINE Good(f) == f = [s \in SUBSET DOMAIN entries |->
                               IF s = {} THEN base ELSE LET x == Max(s) IN Reduce(f[s \ {x}], entries[x])]
             chosen == CHOOSE f : Good(f)
  <2>1. \A f : Good(f) <=> FoldsBy(f, all, base, entries, Len(entries))
    BY <1>0, <1>2 DEF FoldsBy, Stepped
  <2>2. Folded(all, base, entries) = chosen[DOMAIN entries]
    BY <1>2 DEF Folded, FoldLeft, MapThenFoldSet
  <2> HIDE DEF Good
  <2>3. Good(chosen)
    BY <1>1, <2>1
  <2>4. QED
    BY <1>0, <2>1, <2>2, <2>3
<1>3. CASE ~ all
  <2> DEFINE Good(f) == f = [s \in SUBSET DOMAIN entries |->
                               IF s = {} THEN base ELSE LET x == Max(s) IN Received(f[s \ {x}], entries[x])]
             chosen == CHOOSE f : Good(f)
  <2>1. \A f : Good(f) <=> FoldsBy(f, all, base, entries, Len(entries))
    BY <1>0, <1>3 DEF FoldsBy, Stepped
  <2>2. Folded(all, base, entries) = chosen[DOMAIN entries]
    BY <1>3 DEF Folded, FoldLeft, MapThenFoldSet
  <2> HIDE DEF Good
  <2>3. Good(chosen)
    BY <1>1, <2>1
  <2>4. QED
    BY <1>0, <2>1, <2>2, <2>3
<1>4. QED
  BY <1>2, <1>3

LEMMA FoldedNothing ==
  ASSUME NEW all \in BOOLEAN, NEW base
  PROVE  Folded(all, base, <<>>) = base
<1>1. <<>> \in Seq({}) /\ Len(<<>>) = 0
  OBVIOUS
<1>2. PICK F : FoldsBy(F, all, base, <<>>, 0) /\ Folded(all, base, <<>>) = F[1 .. 0]
  BY <1>1, FoldedBy
<1>3. 1 .. 0 = {}
  OBVIOUS
<1>4. QED
  BY <1>2, <1>3 DEF FoldsBy

LEMMA FoldedAppend ==
  ASSUME NEW E, NEW entries \in Seq(E), NEW e \in E, NEW all \in BOOLEAN, NEW base
  PROVE  Folded(all, base, Append(entries, e)) = Stepped(all, Folded(all, base, entries), e)
<1> DEFINE longer == Append(entries, e)
           n == Len(entries)
<1>1. /\ n \in Nat /\ longer \in Seq(E) /\ Len(longer) = n + 1 /\ longer[n + 1] = e
      /\ \A i \in 1 .. n : entries[i] = longer[i]
  OBVIOUS
<1> HIDE DEF longer
<1>2. PICK F : FoldsBy(F, all, base, entries, n) /\ Folded(all, base, entries) = F[1 .. n]
  BY FoldedBy
<1>3. PICK G : FoldsBy(G, all, base, longer, Len(longer)) /\ Folded(all, base, longer) = G[1 .. Len(longer)]
  BY <1>1, FoldedBy
<1> HIDE DEF n
<1>a. FoldsBy(G, all, base, longer, n + 1) /\ Folded(all, base, longer) = G[1 .. n + 1]
  BY <1>1, <1>3
<1>4. F[1 .. n] = G[1 .. n]
  <2>1. n + 1 \in Nat /\ n <= n + 1
    BY <1>1
  <2>2. QED
    BY <1>1, <1>2, <1>a, <2>1, FoldsAgree
<1>5. Max(1 .. n + 1) = n + 1
  <2>1. 1 .. n + 1 \in SUBSET (1 .. n + 1) /\ n + 1 \in Nat /\ 1 .. n + 1 # {} /\ n + 1 \in 1 .. n + 1
    BY <1>1
  <2>2. Max(1 .. n + 1) \in 1 .. n + 1 /\ Max(1 .. n + 1) >= n + 1
    BY <2>1, LastPosition
  <2>3. QED
    BY <2>2, <1>1
<1>6. (1 .. n + 1) \ {n + 1} = 1 .. n /\ 1 .. n + 1 # {}
  <2>1. n \in Nat
    BY <1>1
  <2>2. QED
    BY <2>1
<1>7. G[1 .. n + 1] = Stepped(all, G[1 .. n], longer[n + 1])
  BY <1>a, <1>5, <1>6 DEF FoldsBy
<1>8. QED
  BY <1>1, <1>2, <1>a, <1>4, <1>7 DEF longer

\* The fold of an empty log, and of one entry more.
THEOREM FoldOfNothing == Fold(<<>>) = EmptyDiscussion
BY FoldedNothing DEF Fold, Folded

\* An entry more is one step of the fold more, whatever is in the log.
THEOREM FoldOfAppend ==
  ASSUME NEW E, NEW entries \in Seq(E), NEW e \in E
  PROVE  Fold(Append(entries, e)) = Reduce(Fold(entries), e)
<1>1. Folded(TRUE, EmptyDiscussion, Append(entries, e))
        = Stepped(TRUE, Folded(TRUE, EmptyDiscussion, entries), e)
  BY FoldedAppend
<1>2. QED
  BY <1>1 DEF Fold, Folded, Stepped

\* The same for what a replica makes of the entries that arrive.
Taken(snapshot, entries) == FoldLeft(Received, snapshot, entries)

LEMMA TakenOfNothing ==
  ASSUME NEW snapshot
  PROVE  Taken(snapshot, <<>>) = snapshot
BY FoldedNothing DEF Taken, Folded

LEMMA TakenOfAppend ==
  ASSUME NEW E, NEW entries \in Seq(E), NEW e \in E, NEW snapshot
  PROVE  Taken(snapshot, Append(entries, e)) = Received(Taken(snapshot, entries), e)
<1>1. Folded(FALSE, snapshot, Append(entries, e)) = Stepped(FALSE, Folded(FALSE, snapshot, entries), e)
  BY FoldedAppend
<1>2. QED
  BY <1>1 DEF Taken, Folded, Stepped

-----------------------------------------------------------------------------
\* What there is.

Message == [author : People, body : Nat, edits : Nat]

SomeMessages == UNION {[ids -> Message] : ids \in {some \in SUBSET Messages : IsFiniteSet(some)}}

Thread == [createdBy : People, resolved : BOOLEAN, messages : SomeMessages]

SomeThreads == UNION {[ids -> Thread] : ids \in {some \in SUBSET Threads : IsFiniteSet(some)}}

Snapshot == [sequence : Nat, threads : SomeThreads]

Entry == [sequence : Nat, request : Requests, actor : People, command : Commands]

LEMMA NoMessages == <<>> \in SomeMessages /\ DOMAIN <<>> = {}
<1>1. IsFiniteSet({}) /\ {} \in SUBSET Messages
  BY FS_EmptySet
<1>2. <<>> \in [{} -> Message] /\ DOMAIN <<>> = {}
  OBVIOUS
<1>3. QED
  BY <1>1, <1>2 DEF SomeMessages

LEMMA EmptyType == EmptyDiscussion \in Snapshot
<1>1. IsFiniteSet({}) /\ {} \in SUBSET Threads
  BY FS_EmptySet
<1>2. <<>> \in [{} -> Thread]
  OBVIOUS
<1>3. <<>> \in SomeThreads
  BY <1>1, <1>2 DEF SomeThreads
<1>4. QED
  BY <1>3 DEF EmptyDiscussion, NoThreads, Snapshot

\* Functions on finite sets of ids keep their type when one id is added, changed or removed.
LEMMA WithMessage ==
  ASSUME NEW messages \in SomeMessages, NEW id \in Messages, NEW message \in Message
  PROVE  /\ With(messages, id, message) \in SomeMessages
         /\ IsFiniteSet(DOMAIN messages) /\ messages \in [DOMAIN messages -> Message]
<1>1. PICK ids \in SUBSET Messages : IsFiniteSet(ids) /\ messages \in [ids -> Message]
  BY DEF SomeMessages
<1>2. IsFiniteSet(ids \cup {id}) /\ ids \cup {id} \in SUBSET Messages
  BY <1>1, FS_AddElement
<1>3. With(messages, id, message) \in [ids \cup {id} -> Message]
  BY <1>1 DEF With
<1>4. QED
  BY <1>1, <1>2, <1>3 DEF SomeMessages

LEMMA WithoutMessage ==
  ASSUME NEW messages \in SomeMessages, NEW id
  PROVE  Without(messages, id) \in SomeMessages
<1>1. PICK ids \in SUBSET Messages : IsFiniteSet(ids) /\ messages \in [ids -> Message]
  BY DEF SomeMessages
<1>2. IsFiniteSet(ids \ {id}) /\ ids \ {id} \in SUBSET Messages
  BY <1>1, FS_RemoveElement
<1>3. Without(messages, id) \in [ids \ {id} -> Message]
  BY <1>1 DEF Without
<1>4. QED
  BY <1>2, <1>3 DEF SomeMessages

LEMMA WithThread ==
  ASSUME NEW threads \in SomeThreads, NEW id \in Threads, NEW thread \in Thread
  PROVE  /\ With(threads, id, thread) \in SomeThreads
         /\ IsFiniteSet(DOMAIN threads) /\ threads \in [DOMAIN threads -> Thread]
<1>1. PICK ids \in SUBSET Threads : IsFiniteSet(ids) /\ threads \in [ids -> Thread]
  BY DEF SomeThreads
<1>2. IsFiniteSet(ids \cup {id}) /\ ids \cup {id} \in SUBSET Threads
  BY <1>1, FS_AddElement
<1>3. With(threads, id, thread) \in [ids \cup {id} -> Thread]
  BY <1>1 DEF With
<1>4. QED
  BY <1>1, <1>2, <1>3 DEF SomeThreads

LEMMA WithoutThread ==
  ASSUME NEW threads \in SomeThreads, NEW id
  PROVE  /\ Without(threads, id) \in SomeThreads
         /\ IsFiniteSet(DOMAIN threads) /\ threads \in [DOMAIN threads -> Thread]
<1>1. PICK ids \in SUBSET Threads : IsFiniteSet(ids) /\ threads \in [ids -> Thread]
  BY DEF SomeThreads
<1>2. IsFiniteSet(ids \ {id}) /\ ids \ {id} \in SUBSET Threads
  BY <1>1, FS_RemoveElement
<1>3. Without(threads, id) \in [ids \ {id} -> Thread]
  BY <1>1 DEF Without
<1>4. QED
  BY <1>1, <1>2, <1>3 DEF SomeThreads

-----------------------------------------------------------------------------
\* What a command does to one thread, and to its bytes.

Bodies(messages) == [message \in DOMAIN messages |-> messages[message].body]

\* The bytes of some messages are a number, none for no message.
LEMMA BytesOfSome ==
  ASSUME NEW messages \in SomeMessages
  PROVE  SumFunction(Bodies(messages)) \in Nat /\ SumFunction(Bodies(<<>>)) = 0
<1>1. PICK ids \in SUBSET Messages : IsFiniteSet(ids) /\ messages \in [ids -> Message]
  BY DEF SomeMessages
<1>2. DOMAIN Bodies(messages) = ids /\ \A x \in ids : Bodies(messages)[x] \in Nat
  BY <1>1 DEF Bodies, Message
<1>3. SumFunctionOnSet(Bodies(messages), ids) \in Nat
  BY <1>1, <1>2, SumOfNaturals
<1>4. DOMAIN Bodies(<<>>) = {}
  BY DEF Bodies
<1>5. QED
  BY <1>2, <1>3, <1>4, SumOfNothing DEF SumFunction

\* The size of a message that may be there.
BodyAt(messages, id) == IF id \in DOMAIN messages THEN messages[id].body ELSE 0

LEMMA BytesWithMessage ==
  ASSUME NEW messages \in SomeMessages, NEW id \in Messages, NEW message \in Message
  PROVE  SumFunction(Bodies(With(messages, id, message)))
           = SumFunction(Bodies(messages)) - BodyAt(messages, id) + message.body
<1> DEFINE f == Bodies(messages)
           g == Bodies(With(messages, id, message))
<1>1. IsFiniteSet(DOMAIN messages) /\ messages \in [DOMAIN messages -> Message]
  BY WithMessage
<1>2. /\ DOMAIN f = DOMAIN messages /\ DOMAIN g = DOMAIN messages \cup {id}
      /\ \A x \in DOMAIN f : f[x] = messages[x].body
      /\ g[id] = message.body /\ \A x \in (DOMAIN g) \ {id} : g[x] = messages[x].body
  BY DEF Bodies, With
<1>3. /\ IsFiniteSet(DOMAIN f) /\ IsFiniteSet(DOMAIN g)
      /\ (DOMAIN f) \ {id} = (DOMAIN g) \ {id} /\ \A x \in (DOMAIN f) \ {id} : f[x] = g[x]
  <2>1. IsFiniteSet(DOMAIN messages \cup {id})
    BY <1>1, FS_AddElement
  <2>2. QED
    BY <1>1, <1>2, <2>1
<1>4. message.body \in Nat /\ \A x \in DOMAIN messages : messages[x].body \in Nat
  BY <1>1 DEF Message
<1>5. (\A x \in DOMAIN f : f[x] \in Int) /\ \A x \in DOMAIN g : g[x] \in Int
  BY <1>2, <1>4
<1>6. ShareOf(g, id) = message.body /\ ShareOf(f, id) = BodyAt(messages, id) /\ BodyAt(messages, id) \in Nat
  BY <1>2, <1>4 DEF ShareOf, BodyAt
<1> HIDE DEF f, g
<1>7. /\ SumFunction(f) \in Int /\ SumFunction(g) \in Int
      /\ SumFunction(g) - ShareOf(g, id) = SumFunction(f) - ShareOf(f, id)
  BY <1>3, <1>5, SumApart
<1>8. SumFunction(g) = SumFunction(f) - BodyAt(messages, id) + message.body
  BY <1>4, <1>6, <1>7
<1>9. QED
  BY <1>8 DEF f, g

LEMMA BytesWithoutMessage ==
  ASSUME NEW messages \in SomeMessages, NEW id \in Messages
  PROVE  SumFunction(Bodies(Without(messages, id))) = SumFunction(Bodies(messages)) - BodyAt(messages, id)
<1> DEFINE f == Bodies(messages)
           g == Bodies(Without(messages, id))
<1>1. IsFiniteSet(DOMAIN messages) /\ messages \in [DOMAIN messages -> Message]
  <2>1. PICK ids \in SUBSET Messages : IsFiniteSet(ids) /\ messages \in [ids -> Message]
    BY DEF SomeMessages
  <2>2. QED
    BY <2>1
<1>2. /\ DOMAIN f = DOMAIN messages /\ DOMAIN g = DOMAIN messages \ {id}
      /\ \A x \in DOMAIN f : f[x] = messages[x].body
      /\ \A x \in DOMAIN g : g[x] = messages[x].body
  BY DEF Bodies, Without
<1>3. /\ IsFiniteSet(DOMAIN f) /\ IsFiniteSet(DOMAIN g)
      /\ (DOMAIN f) \ {id} = (DOMAIN g) \ {id} /\ \A x \in (DOMAIN f) \ {id} : f[x] = g[x]
  <2>1. IsFiniteSet(DOMAIN messages \ {id})
    BY <1>1, FS_RemoveElement
  <2>2. QED
    BY <1>1, <1>2, <2>1
<1>4. \A x \in DOMAIN messages : messages[x].body \in Nat
  BY <1>1 DEF Message
<1>5. (\A x \in DOMAIN f : f[x] \in Int) /\ \A x \in DOMAIN g : g[x] \in Int
  BY <1>2, <1>4
<1>6. ShareOf(g, id) = 0 /\ ShareOf(f, id) = BodyAt(messages, id) /\ BodyAt(messages, id) \in Nat
  BY <1>2, <1>4 DEF ShareOf, BodyAt
<1> HIDE DEF f, g
<1>7. /\ SumFunction(f) \in Int /\ SumFunction(g) \in Int
      /\ SumFunction(g) - ShareOf(g, id) = SumFunction(f) - ShareOf(f, id)
  BY <1>3, <1>5, SumApart
<1>8. SumFunction(g) = SumFunction(f) - BodyAt(messages, id)
  BY <1>6, <1>7
<1>9. QED
  BY <1>8 DEF f, g

LEMMA CommandParts ==
  ASSUME NEW command \in Commands
  PROVE  /\ command.thread \in Threads
         /\ command.kind \in {"createThread", "reply", "editMessage", "deleteMessage",
                              "resolveThread", "reopenThread", "deleteThread"}
         /\ command.kind \in {"createThread", "reply", "editMessage", "deleteMessage"} => command.message \in Messages
         /\ command.kind \in {"createThread", "reply", "editMessage"} => command.body \in Nat
BY DEF Commands

\* A command the fold applies leaves a thread whose bytes have grown by bodyBytesDelta.
LEMMA ChangedThread ==
  ASSUME NEW threads \in SomeThreads, NEW command \in Commands, NEW actor \in People,
         ~ Refused(threads, command, actor, TRUE), command.kind # "deleteThread"
  PROVE  /\ Changed(threads, command, actor) \in Thread
         /\ BytesOfThread(Changed(threads, command, actor))
              = (IF HasThread(threads, command) THEN BytesOfThread(threads[command.thread]) ELSE 0)
                + BytesDelta(threads, command)
<1> DEFINE thread == threads[command.thread]
           new == Changed(threads, command, actor)
<1>0. threads \in [DOMAIN threads -> Thread]
  BY WithoutThread
<1>1. CASE command.kind = "createThread"
  <2>1. /\ ~ HasThread(threads, command) /\ command.message \in Messages /\ command.body \in Nat
        /\ BytesDelta(threads, command) = command.body
    BY <1>1, CommandParts DEF Refused, BytesDelta
  <2> DEFINE message == Written(actor, command.body)
             messages == With(<<>>, command.message, message)
  <2>2. message \in Message /\ message.body = command.body
    BY <2>1 DEF Written, Message
  <2>3. new = [createdBy |-> actor, resolved |-> FALSE, messages |-> messages]
    BY <1>1 DEF Changed
  <2>4. messages \in SomeMessages
    BY <2>1, <2>2, NoMessages, WithMessage
  <2>5. SumFunction(Bodies(messages)) = SumFunction(Bodies(<<>>)) - BodyAt(<<>>, command.message) + message.body
    BY <2>1, <2>2, NoMessages, BytesWithMessage
  <2>6. SumFunction(Bodies(<<>>)) = 0 /\ BodyAt(<<>>, command.message) = 0
    BY NoMessages, BytesOfSome DEF BodyAt
  <2> HIDE DEF messages, message
  <2>7. BytesOfThread(new) = command.body
    BY <2>1, <2>2, <2>3, <2>5, <2>6 DEF BytesOfThread, Bodies
  <2>8. new \in Thread
    BY <2>3, <2>4 DEF Thread
  <2>9. QED
    BY <2>1, <2>7, <2>8
<1>2. CASE command.kind = "reply"
  <2>1. /\ HasThread(threads, command) /\ command.message \in Messages /\ command.body \in Nat
        /\ command.message \notin MessageIds(threads)
        /\ BytesDelta(threads, command) = command.body
    BY <1>2, CommandParts DEF Refused, BytesDelta
  <2>a. thread \in Thread
    BY <1>0, <2>1 DEF HasThread
  <2> DEFINE message == Written(actor, command.body)
             messages == With(thread.messages, command.message, message)
  <2>2. message \in Message /\ message.body = command.body
    BY <2>1 DEF Written, Message
  <2>3. new = [thread EXCEPT !.messages = messages]
    BY <1>2 DEF Changed
  <2>b. thread.messages \in SomeMessages
    BY <2>a DEF Thread
  <2>4. messages \in SomeMessages
    BY <2>1, <2>2, <2>b, WithMessage
  <2>5. SumFunction(Bodies(messages))
          = SumFunction(Bodies(thread.messages)) - BodyAt(thread.messages, command.message) + message.body
    BY <2>1, <2>2, <2>b, BytesWithMessage
  <2>6. BodyAt(thread.messages, command.message) = 0
    BY <2>1 DEF BodyAt, MessageIds, HasThread
  <2>7. SumFunction(Bodies(thread.messages)) \in Nat
    BY <2>b, BytesOfSome
  <2> HIDE DEF messages, message, thread
  <2>8. new \in Thread /\ new.messages = messages
    BY <2>3, <2>4, <2>a DEF Thread
  <2>9. BytesOfThread(new) = BytesOfThread(thread) + command.body
    BY <2>1, <2>2, <2>5, <2>6, <2>7, <2>8 DEF BytesOfThread, Bodies
  <2>10. QED
    BY <2>1, <2>8, <2>9 DEF thread
<1>3. CASE command.kind = "editMessage"
  <2>1. /\ HasMessage(threads, command) /\ HasThread(threads, command)
        /\ command.message \in Messages /\ command.body \in Nat
        /\ BytesDelta(threads, command) = command.body - MessageOf(threads, command).body
    BY <1>3, CommandParts DEF Refused, BytesDelta, HasMessage
  <2>a. thread \in Thread
    BY <1>0, <2>1 DEF HasThread
  <2>b. thread.messages \in SomeMessages
    BY <2>a DEF Thread
  <2>c. thread.messages \in [DOMAIN thread.messages -> Message] /\ command.message \in DOMAIN thread.messages
    BY <2>b, <2>1, WithMessage DEF HasMessage, SomeMessages
  <2> DEFINE old == thread.messages[command.message]
             message == Edited(old, command.body)
             messages == With(thread.messages, command.message, message)
  <2>d. old \in Message /\ MessageOf(threads, command) = old
    BY <2>c DEF MessageOf
  <2>2. message \in Message /\ message.body = command.body
    <3> HIDE DEF old
    <3>1. QED
      BY <2>1, <2>d DEF Edited, Message
  <2>3. new = [thread EXCEPT !.messages = messages]
    BY <1>3 DEF Changed
  <2>4. messages \in SomeMessages
    BY <2>1, <2>2, <2>b, WithMessage
  <2>5. SumFunction(Bodies(messages))
          = SumFunction(Bodies(thread.messages)) - BodyAt(thread.messages, command.message) + message.body
    BY <2>1, <2>2, <2>b, BytesWithMessage
  <2>6. BodyAt(thread.messages, command.message) = old.body /\ old.body \in Nat
    BY <2>c, <2>d DEF BodyAt, Message
  <2>7. SumFunction(Bodies(thread.messages)) \in Nat
    BY <2>b, BytesOfSome
  <2> HIDE DEF messages, message, old, thread
  <2>8. new \in Thread /\ new.messages = messages
    BY <2>3, <2>4, <2>a DEF Thread
  <2>9. BytesOfThread(new) = BytesOfThread(thread) + (command.body - old.body)
    BY <2>1, <2>2, <2>5, <2>6, <2>7, <2>8 DEF BytesOfThread, Bodies
  <2>10. QED
    BY <2>1, <2>8, <2>9, <2>d DEF thread
<1>4. CASE command.kind = "deleteMessage"
  <2>1. /\ HasMessage(threads, command) /\ HasThread(threads, command)
        /\ command.message \in Messages
        /\ BytesDelta(threads, command) = -MessageOf(threads, command).body
    BY <1>4, CommandParts DEF Refused, BytesDelta, HasMessage
  <2>a. thread \in Thread
    BY <1>0, <2>1 DEF HasThread
  <2>b. thread.messages \in SomeMessages
    BY <2>a DEF Thread
  <2>c. thread.messages \in [DOMAIN thread.messages -> Message] /\ command.message \in DOMAIN thread.messages
    BY <2>b, <2>1, WithMessage DEF HasMessage, SomeMessages
  <2> DEFINE old == thread.messages[command.message]
             messages == Without(thread.messages, command.message)
  <2>d. old \in Message /\ MessageOf(threads, command) = old
    BY <2>c DEF MessageOf
  <2>3. new = [thread EXCEPT !.messages = messages]
    BY <1>4 DEF Changed
  <2>4. messages \in SomeMessages
    BY <2>1, <2>b, WithoutMessage
  <2>5. SumFunction(Bodies(messages))
          = SumFunction(Bodies(thread.messages)) - BodyAt(thread.messages, command.message)
    BY <2>1, <2>b, BytesWithoutMessage
  <2>6. BodyAt(thread.messages, command.message) = old.body /\ old.body \in Nat
    BY <2>c, <2>d DEF BodyAt, Message
  <2>7. SumFunction(Bodies(thread.messages)) \in Nat
    BY <2>b, BytesOfSome
  <2> HIDE DEF messages, old, thread
  <2>8. new \in Thread /\ new.messages = messages
    BY <2>3, <2>4, <2>a DEF Thread
  <2>9. BytesOfThread(new) = BytesOfThread(thread) + (-old.body)
    BY <2>1, <2>5, <2>6, <2>7, <2>8 DEF BytesOfThread, Bodies
  <2>10. QED
    BY <2>1, <2>8, <2>9, <2>d DEF thread
<1>5. CASE command.kind \in {"resolveThread", "reopenThread"}
  <2>1. HasThread(threads, command) /\ BytesDelta(threads, command) = 0
    BY <1>5 DEF Refused, BytesDelta
  <2>2. thread \in Thread
    BY <1>0, <2>1 DEF HasThread
  <2>3. new \in Thread /\ new.messages = thread.messages
    BY <1>5, <2>2 DEF Changed, Thread
  <2>4. BytesOfThread(thread) \in Nat /\ BytesOfThread(new) = BytesOfThread(thread)
    BY <2>2, <2>3, BytesOfSome DEF BytesOfThread, Thread, Bodies
  <2>5. QED
    BY <2>1, <2>3, <2>4
<1>6. QED
  BY <1>1, <1>2, <1>3, <1>4, <1>5, CommandParts

\* The bytes of each thread.
Sizes(threads) == [thread \in DOMAIN threads |-> BytesOfThread(threads[thread])]

LEMMA BytesOfAll ==
  ASSUME NEW threads \in SomeThreads
  PROVE  /\ BytesOf(threads) = SumFunction(Sizes(threads)) /\ BytesOf(threads) \in Nat
         /\ \A id \in DOMAIN threads : BytesOfThread(threads[id]) \in Nat
         /\ BytesOf(NoThreads) = 0
<1>1. IsFiniteSet(DOMAIN threads) /\ threads \in [DOMAIN threads -> Thread]
  BY WithoutThread
<1>2. \A id \in DOMAIN threads : BytesOfThread(threads[id]) \in Nat
  BY <1>1, BytesOfSome DEF Thread, BytesOfThread, Bodies
<1>3. DOMAIN Sizes(threads) = DOMAIN threads /\ \A id \in DOMAIN threads : Sizes(threads)[id] \in Nat
  BY <1>2 DEF Sizes
<1>4. SumFunctionOnSet(Sizes(threads), DOMAIN threads) \in Nat
  BY <1>1, <1>3, SumOfNaturals
<1>5. BytesOf(NoThreads) = 0
  <2>1. DOMAIN Sizes(NoThreads) = {}
    BY DEF Sizes, NoThreads
  <2>2. QED
    BY <2>1, SumOfNothing DEF BytesOf, Sizes, SumFunction
<1>6. QED
  BY <1>2, <1>3, <1>4, <1>5 DEF BytesOf, SumFunction, Sizes

\* The same for all threads: what the fold applies changes the bytes by bodyBytesDelta.
THEOREM BytesOfApplied ==
  ASSUME NEW threads \in SomeThreads, NEW entry, entry.command \in Commands, entry.actor \in People
  PROVE  /\ ApplyEntry(threads, entry) \in SomeThreads
         /\ ~ Refused(threads, entry.command, entry.actor, TRUE) =>
              BytesOf(ApplyEntry(threads, entry)) = BytesOf(threads) + BytesDelta(threads, entry.command)
<1> DEFINE command == entry.command
           id == command.thread
           new == ApplyEntry(threads, entry)
           f == Sizes(threads)
           g == Sizes(new)
<1>0. IsFiniteSet(DOMAIN threads) /\ threads \in [DOMAIN threads -> Thread] /\ id \in Threads
  BY WithoutThread, CommandParts
<1>1. CASE Refused(threads, command, entry.actor, TRUE)
  BY <1>1 DEF ApplyEntry
<1>2. CASE ~ Refused(threads, command, entry.actor, TRUE)
  <2> DEFINE there == IF id \in DOMAIN threads THEN BytesOfThread(threads[id]) ELSE 0
             after == ShareOf(g, id)
  <2>1. /\ new \in SomeThreads /\ (DOMAIN new) \ {id} = (DOMAIN threads) \ {id}
        /\ \A x \in (DOMAIN threads) \ {id} : new[x] = threads[x]
        /\ after - there = BytesDelta(threads, command)
    <3>1. CASE command.kind = "deleteThread"
      <4>1. new = Without(threads, id) /\ id \in DOMAIN threads
        BY <1>2, <3>1 DEF ApplyEntry, Refused, HasThread
      <4>2. BytesDelta(threads, command) = -BytesOfThread(threads[id])
        BY <3>1, <4>1 DEF BytesDelta, HasThread
      <4>3. after = 0 /\ there = BytesOfThread(threads[id]) /\ there \in Nat
        BY <4>1, BytesOfAll DEF ShareOf, Sizes, Without
      <4>4. QED
        BY <4>1, <4>2, <4>3, WithoutThread DEF Without
    <3>2. CASE command.kind # "deleteThread"
      <4> DEFINE thread == Changed(threads, command, entry.actor)
      <4>1. new = With(threads, id, thread)
        BY <1>2, <3>2 DEF ApplyEntry
      <4>2. thread \in Thread /\ BytesOfThread(thread) = there + BytesDelta(threads, command)
        BY <1>2, <3>2, ChangedThread DEF HasThread
      <4>3. after = BytesOfThread(thread)
        BY <4>1 DEF ShareOf, Sizes, With
      <4>4. BytesOfThread(thread) \in Nat /\ there \in Nat
        BY <4>2, BytesOfSome, BytesOfAll DEF Thread, BytesOfThread, Bodies
      <4>5. BytesDelta(threads, command) \in Int
        <5>1. /\ command.kind \in {"createThread", "reply", "editMessage"} => command.body \in Int
              /\ HasMessage(threads, command) => MessageOf(threads, command).body \in Int
          <6>1. command.kind \in {"createThread", "reply", "editMessage"} => command.body \in Int
            BY CommandParts
          <6>2. ASSUME HasMessage(threads, command)
                PROVE  MessageOf(threads, command).body \in Int
            <7>1. threads[id] \in Thread /\ command.message \in DOMAIN threads[id].messages
              BY <1>0, <6>2 DEF HasMessage, HasThread
            <7>2. threads[id].messages \in [DOMAIN threads[id].messages -> Message]
              BY <7>1 DEF Thread, SomeMessages
            <7>3. QED
              BY <7>1, <7>2 DEF MessageOf, Message
          <6>3. QED
            BY <6>1, <6>2
        <5>2. QED
          BY <5>1, <3>2 DEF BytesDelta
      <4>6. new \in SomeThreads
        BY <1>0, <4>1, <4>2, WithThread
      <4>7. (DOMAIN new) \ {id} = (DOMAIN threads) \ {id} /\ \A x \in (DOMAIN threads) \ {id} : new[x] = threads[x]
        BY <4>1 DEF With
      <4> HIDE DEF thread, there, after, new
      <4>8. after - there = BytesDelta(threads, command)
        BY <4>2, <4>3, <4>4, <4>5
      <4>9. QED
        BY <4>6, <4>7, <4>8
    <3>3. QED
      BY <3>1, <3>2
  <2>2. IsFiniteSet(DOMAIN new)
    BY <2>1, WithoutThread
  <2>3. /\ DOMAIN f = DOMAIN threads /\ DOMAIN g = DOMAIN new
        /\ \A x \in DOMAIN f : f[x] \in Int
        /\ \A x \in DOMAIN g : g[x] \in Int
    <3>1. new \in SomeThreads
      BY <2>1
    <3> HIDE DEF new
    <3>2. (\A x \in DOMAIN threads : BytesOfThread(threads[x]) \in Nat) /\ \A x \in DOMAIN new : BytesOfThread(new[x]) \in Nat
      BY <3>1, BytesOfAll
    <3>3. QED
      BY <3>2 DEF Sizes
  <2>4. \A x \in (DOMAIN f) \ {id} : f[x] = g[x]
    BY <2>1, <2>3 DEF Sizes
  <2>5. ShareOf(f, id) = there /\ there \in Nat /\ after \in Nat
    BY <2>1, <2>3, BytesOfAll DEF ShareOf, Sizes
  <2> HIDE DEF f, g, new
  <2>6. /\ SumFunction(f) \in Int /\ SumFunction(g) \in Int
        /\ SumFunction(g) - ShareOf(g, id) = SumFunction(f) - ShareOf(f, id)
    BY <1>0, <2>1, <2>2, <2>3, <2>4, SumApart
  <2>7. BytesOf(threads) = SumFunction(f) /\ BytesOf(new) = SumFunction(g)
    BY <2>1, BytesOfAll DEF f, g
  <2> HIDE DEF there
  <2>8. BytesOf(new) = BytesOf(threads) + BytesDelta(threads, command)
    BY <2>1, <2>5, <2>6, <2>7
  <2>9. QED
    BY <2>1, <2>8 DEF new
<1>3. QED
  BY <1>1, <1>2

-----------------------------------------------------------------------------
\* Prefixes of a log.

LEMMA PrefixFacts ==
  ASSUME NEW E, NEW entries \in Seq(E), NEW n \in 0 .. Len(entries)
  PROVE  /\ SubSeq(entries, 1, n) \in Seq(E) /\ Len(SubSeq(entries, 1, n)) = n
         /\ \A i \in 1 .. n : SubSeq(entries, 1, n)[i] = entries[i]
         /\ n = Len(entries) => SubSeq(entries, 1, n) = entries
         /\ n = 0 => SubSeq(entries, 1, n) = <<>>
<1>1. n \in Nat /\ n <= Len(entries) /\ DOMAIN entries = 1 .. Len(entries)
  OBVIOUS
<1>2. SubSeq(entries, 1, n) \in Seq(E) /\ Len(SubSeq(entries, 1, n)) = n
  BY <1>1
<1>3. \A i \in 1 .. n : SubSeq(entries, 1, n)[i] = entries[i]
  BY <1>1
<1>4. n = Len(entries) => SubSeq(entries, 1, n) = entries
  BY <1>1, <1>2, <1>3
<1>5. n = 0 => SubSeq(entries, 1, n) = <<>>
  BY <1>2
<1>6. QED
  BY <1>2, <1>3, <1>4, <1>5

LEMMA NextPrefix ==
  ASSUME NEW E, NEW entries \in Seq(E), NEW n \in Nat, n < Len(entries)
  PROVE  SubSeq(entries, 1, n + 1) = Append(SubSeq(entries, 1, n), entries[n + 1])
<1> DEFINE longer == SubSeq(entries, 1, n + 1)
           shorter == SubSeq(entries, 1, n)
<1>1. n \in 0 .. Len(entries) /\ n + 1 \in 0 .. Len(entries) /\ entries[n + 1] \in E
  OBVIOUS
<1>2. /\ longer \in Seq(E) /\ Len(longer) = n + 1 /\ \A i \in 1 .. n + 1 : longer[i] = entries[i]
      /\ shorter \in Seq(E) /\ Len(shorter) = n /\ \A i \in 1 .. n : shorter[i] = entries[i]
  BY <1>1, PrefixFacts
<1> HIDE DEF longer, shorter
<1>3. longer = Append(shorter, entries[n + 1])
  BY <1>1, <1>2
<1>4. QED
  BY <1>3 DEF longer, shorter

LEMMA PrefixOfAppend ==
  ASSUME NEW E, NEW entries \in Seq(E), NEW e \in E, NEW n \in 0 .. Len(entries)
  PROVE  SubSeq(Append(entries, e), 1, n) = SubSeq(entries, 1, n)
<1> DEFINE longer == Append(entries, e)
           one == SubSeq(longer, 1, n)
           other == SubSeq(entries, 1, n)
<1>1. /\ longer \in Seq(E) /\ Len(longer) = Len(entries) + 1 /\ n \in 0 .. Len(longer)
      /\ \A i \in 1 .. Len(entries) : longer[i] = entries[i]
  OBVIOUS
<1> HIDE DEF longer
<1>2. one \in Seq(E) /\ Len(one) = n /\ \A i \in 1 .. n : one[i] = longer[i]
  BY <1>1, PrefixFacts
<1>3. other \in Seq(E) /\ Len(other) = n /\ \A i \in 1 .. n : other[i] = entries[i]
  BY PrefixFacts
<1> HIDE DEF one, other
<1>4. one = other
  BY <1>1, <1>2, <1>3
<1>5. QED
  BY <1>4 DEF one, other, longer

\* The fold of a prefix, one entry further.
LEMMA FoldOfPrefix ==
  ASSUME NEW E, NEW entries \in Seq(E), NEW n \in Nat, n < Len(entries)
  PROVE  Fold(SubSeq(entries, 1, n + 1)) = Reduce(Fold(SubSeq(entries, 1, n)), entries[n + 1])
<1>1. n \in 0 .. Len(entries) /\ entries[n + 1] \in E
  OBVIOUS
<1>2. SubSeq(entries, 1, n) \in Seq(E)
  BY <1>1, PrefixFacts
<1>3. QED
  BY <1>1, <1>2, NextPrefix, FoldOfAppend

LEMMA ReduceType ==
  ASSUME NEW snapshot \in Snapshot, NEW entry \in Entry
  PROVE  Reduce(snapshot, entry) \in Snapshot
<1>1. snapshot.threads \in SomeThreads /\ entry.command \in Commands /\ entry.actor \in People /\ entry.sequence \in Nat
  BY DEF Snapshot, Entry
<1>2. ApplyEntry(snapshot.threads, entry) \in SomeThreads
  BY <1>1, BytesOfApplied
<1>3. QED
  BY <1>1, <1>2 DEF Reduce, Snapshot

LEMMA FoldType ==
  ASSUME NEW entries \in Seq(Entry), NEW n \in 0 .. Len(entries)
  PROVE  Fold(SubSeq(entries, 1, n)) \in Snapshot /\ Fold(entries) \in Snapshot
<1> DEFINE S == {k \in Nat : k <= Len(entries) => Fold(SubSeq(entries, 1, k)) \in Snapshot}
<1>1. 0 \in S
  <2>1. 0 \in 0 .. Len(entries)
    OBVIOUS
  <2>2. SubSeq(entries, 1, 0) = <<>>
    BY <2>1, PrefixFacts
  <2>3. QED
    BY <2>2, FoldOfNothing, EmptyType
<1>2. ASSUME NEW k \in Nat, k \in S
      PROVE  k + 1 \in S
  <2>1. ASSUME k + 1 <= Len(entries)
        PROVE  Fold(SubSeq(entries, 1, k + 1)) \in Snapshot
    <3>1. k < Len(entries) /\ entries[k + 1] \in Entry /\ k <= Len(entries)
      BY <2>1
    <3>2. Fold(SubSeq(entries, 1, k)) \in Snapshot
      BY <1>2, <3>1
    <3>3. QED
      BY <3>1, <3>2, FoldOfPrefix, ReduceType
  <2>2. QED
    BY <2>1
<1>3. Nat \subseteq S
  BY <1>1, <1>2, SetInduction
<1>4. Len(entries) \in Nat /\ n \in Nat /\ n <= Len(entries) /\ Len(entries) \in 0 .. Len(entries)
  OBVIOUS
<1>5. Fold(SubSeq(entries, 1, n)) \in Snapshot /\ Fold(SubSeq(entries, 1, Len(entries))) \in Snapshot
  BY <1>3, <1>4
<1>6. SubSeq(entries, 1, Len(entries)) = entries
  BY <1>4, PrefixFacts
<1>7. QED
  BY <1>5, <1>6

-----------------------------------------------------------------------------
\* Decisions.

Outcome == [request : Requests, applied : BOOLEAN, sequence : Nat]

Past == [person : People, outcome : Outcome]

Authority == [snapshot : Snapshot, remembered : Seq(Past), bytes : Nat]

\* What is remembered of a sequence: its last elements, all of them when there is room.
LEMMA LastOfSome ==
  ASSUME NEW E, NEW sequence \in Seq(E), NEW most \in Nat \ {0}
  PROVE  /\ LastOf(most, sequence) \in Seq(E) /\ Len(LastOf(most, sequence)) <= most
         /\ Len(sequence) <= most => LastOf(most, sequence) = sequence
         /\ \A i \in DOMAIN LastOf(most, sequence) : \E j \in DOMAIN sequence : LastOf(most, sequence)[i] = sequence[j]
<1> DEFINE n == Len(sequence)
           from == IF n > most THEN n - most + 1 ELSE 1
           last == SubSeq(sequence, from, n)
<1>1. n \in Nat /\ most \in Nat /\ most >= 1 /\ from \in Nat /\ from >= 1 /\ from <= n + 1 /\ n - from + 1 <= most
  OBVIOUS
<1>2. LastOf(most, sequence) = last
  BY DEF LastOf
<1>3. DOMAIN sequence = 1 .. n
  OBVIOUS
<1> HIDE DEF from, n
<1>4. /\ last \in Seq(E) /\ Len(last) = n - from + 1
      /\ \A i \in 1 .. n - from + 1 : last[i] = sequence[from + i - 1]
  BY <1>1, <1>3 DEF n
<1>5. n <= most => last = sequence
  <2>1. ASSUME n <= most
        PROVE  last = sequence
    <3>1. from = 1
      BY <1>1, <2>1 DEF from
    <3>2. Len(last) = n /\ \A i \in 1 .. n : last[i] = sequence[i]
      BY <1>1, <1>4, <3>1
    <3>3. Len(sequence) = n
      BY DEF n
    <3> HIDE DEF last
    <3>4. QED
      BY <1>4, <3>2, <3>3
  <2>2. QED
    BY <2>1
<1>6. \A i \in DOMAIN last : \E j \in DOMAIN sequence : last[i] = sequence[j]
  <2>1. ASSUME NEW i \in 1 .. n - from + 1
        PROVE  \E j \in DOMAIN sequence : last[i] = sequence[j]
    <3>1. from + i - 1 \in 1 .. n /\ last[i] = sequence[from + i - 1]
      BY <1>1, <1>4
    <3>2. QED
      BY <1>3, <3>1
  <2>2. DOMAIN last = 1 .. n - from + 1
    BY <1>1, <1>4
  <2>3. QED
    BY <2>1, <2>2
<1>7. QED
  BY <1>1, <1>2, <1>4, <1>5, <1>6 DEF n

\* What the authority does not refuse, the fold applies.
LEMMA AllowedIsApplied ==
  ASSUME NEW state, NEW command \in Commands, NEW actor, NEW role,
         ~ AuthorityRefuses(state, command, actor, role)
  PROVE  ~ Refused(state.snapshot.threads, command, actor, TRUE)
<1>1. ~ Refused(state.snapshot.threads, command, actor, MayModerate(role))
  BY DEF AuthorityRefuses
<1>2. command.kind \in {"createThread", "reply", "editMessage", "deleteMessage",
                        "resolveThread", "reopenThread", "deleteThread"}
  BY CommandParts
<1>3. QED
  BY <1>1, <1>2 DEF Refused

\* The three ways a request is decided.
Rejected(request) == [request |-> request, applied |-> FALSE, sequence |-> 0]

NextEntry(state, request, command, actor) ==
  [sequence |-> state.snapshot.sequence + 1, request |-> request, actor |-> actor, command |-> command]

Memory(state, actor, outcome) ==
  LastOf(MaxRemembered, Append(state.remembered, [person |-> actor, outcome |-> outcome]))

DecidedBefore(decision, state, request, actor) ==
  /\ \E past \in Range(state.remembered) :
       past.person = actor /\ past.outcome.request = request /\ decision.outcome = past.outcome
  /\ decision.entries = <<>> /\ decision.state = state

DecidedAgainst(decision, state, request, actor) ==
  /\ \A past \in Range(state.remembered) : ~ (past.person = actor /\ past.outcome.request = request)
  /\ decision.outcome = Rejected(request) /\ decision.entries = <<>>
  /\ decision.state = [snapshot |-> state.snapshot, bytes |-> state.bytes,
                       remembered |-> Memory(state, actor, Rejected(request))]

DecidedFor(decision, state, request, command, actor, role) ==
  LET entry == NextEntry(state, request, command, actor)
  IN  /\ \A past \in Range(state.remembered) : ~ (past.person = actor /\ past.outcome.request = request)
      /\ ~ AuthorityRefuses(state, command, actor, role)
      /\ decision.outcome = Remembered(entry).outcome /\ decision.entries = <<entry>>
      /\ decision.state = [snapshot |-> Reduce(state.snapshot, entry),
                           bytes |-> state.bytes + BytesDelta(state.snapshot.threads, command),
                           remembered |-> Memory(state, actor, Remembered(entry).outcome)]

LEMMA Decisions ==
  ASSUME NEW state \in Authority, NEW request \in Requests, NEW command \in Commands,
         NEW actor \in People, NEW role
  PROVE  LET decision == Decide(state, request, command, actor, role)
         IN  \/ DecidedBefore(decision, state, request, actor)
             \/ DecidedAgainst(decision, state, request, actor)
             \/ DecidedFor(decision, state, request, command, actor, role)
<1> DEFINE decision == Decide(state, request, command, actor, role)
           earlier == FirstOutcomes(state, actor, request)
           entry == NextEntry(state, request, command, actor)
<1>0. state = [snapshot |-> state.snapshot, remembered |-> state.remembered, bytes |-> state.bytes]
  BY DEF Authority
<1>1. CASE earlier # {}
  <2>1. decision = [outcome |-> CHOOSE outcome \in earlier : TRUE, entries |-> <<>>, state |-> state]
    BY <1>1 DEF Decide
  <2>2. decision.outcome \in earlier
    BY <1>1, <2>1
  <2>3. QED
    BY <2>1, <2>2 DEF FirstOutcomes, DecidedBefore
<1>2. CASE earlier = {}
  <2>1. \A past \in Range(state.remembered) : ~ (past.person = actor /\ past.outcome.request = request)
    BY <1>2 DEF FirstOutcomes
  <2>2. CASE AuthorityRefuses(state, command, actor, role)
    <3>1. decision = [outcome |-> Rejected(request), entries |-> <<>>,
                      state |-> Remember(state, actor, Rejected(request))]
      BY <1>2, <2>2 DEF Decide, Rejected
    <3>2. Remember(state, actor, Rejected(request))
            = [snapshot |-> state.snapshot, bytes |-> state.bytes, remembered |-> Memory(state, actor, Rejected(request))]
      BY <1>0 DEF Remember, Memory
    <3>3. QED
      BY <2>1, <3>1, <3>2 DEF DecidedAgainst
  <2>3. CASE ~ AuthorityRefuses(state, command, actor, role)
    <3> DEFINE appended == [snapshot |-> Reduce(state.snapshot, entry), remembered |-> state.remembered,
                            bytes |-> state.bytes + BytesDelta(state.snapshot.threads, command)]
    <3>1. decision = [outcome |-> Remembered(entry).outcome, entries |-> <<entry>>,
                      state |-> Remember(appended, actor, Remembered(entry).outcome)]
      BY <1>2, <2>3 DEF Decide, NextEntry
    <3>2. Remember(appended, actor, Remembered(entry).outcome)
            = [snapshot |-> Reduce(state.snapshot, entry),
               bytes |-> state.bytes + BytesDelta(state.snapshot.threads, command),
               remembered |-> Memory(state, actor, Remembered(entry).outcome)]
      BY DEF Remember, Memory
    <3>3. QED
      BY <2>1, <2>3, <3>1, <3>2 DEF DecidedFor
  <2>4. QED
    BY <2>2, <2>3
<1>3. QED
  BY <1>1, <1>2

\* Their types, and the bytes that are kept with the threads.
LEMMA DecisionType ==
  ASSUME NEW state \in Authority, NEW request \in Requests, NEW command \in Commands,
         NEW actor \in People, NEW role, NEW decision, decision = Decide(state, request, command, actor, role),
         state.bytes = BytesOf(state.snapshot.threads)
  PROVE  /\ decision.outcome \in Outcome /\ decision.state \in Authority
         /\ decision.entries = <<>> \/ \E entry \in Entry : decision.entries = <<entry>>
         /\ decision.state.bytes = BytesOf(decision.state.snapshot.threads)
         /\ Len(decision.state.remembered) <= MaxRemembered \/ decision.state = state
<1>0. /\ state.snapshot \in Snapshot /\ state.snapshot.threads \in SomeThreads /\ state.snapshot.sequence \in Nat
      /\ state.remembered \in Seq(Past) /\ state.bytes \in Nat /\ MaxRemembered \in Nat \ {0}
  BY DiscussionLimitsAssumption DEF Authority, Snapshot
<1>1. ASSUME NEW outcome \in Outcome
      PROVE  Memory(state, actor, outcome) \in Seq(Past) /\ Len(Memory(state, actor, outcome)) <= MaxRemembered
  <2>1. Append(state.remembered, [person |-> actor, outcome |-> outcome]) \in Seq(Past)
    BY <1>0, <1>1 DEF Past
  <2>2. QED
    BY <1>0, <2>1, LastOfSome DEF Memory
<1>2. CASE DecidedBefore(decision, state, request, actor)
  <2>1. decision.outcome \in Outcome
    <3>1. PICK past \in Range(state.remembered) : decision.outcome = past.outcome
      BY <1>2 DEF DecidedBefore
    <3>2. past \in Past
      BY <1>0, <3>1 DEF Range
    <3>3. QED
      BY <3>1, <3>2 DEF Past
  <2>2. QED
    BY <1>2, <2>1 DEF DecidedBefore
<1>3. CASE DecidedAgainst(decision, state, request, actor)
  <2>1. Rejected(request) \in Outcome
    BY DEF Rejected, Outcome
  <2>2. QED
    BY <1>0, <1>1, <1>3, <2>1 DEF DecidedAgainst, Authority
<1>4. CASE DecidedFor(decision, state, request, command, actor, role)
  <2> DEFINE entry == NextEntry(state, request, command, actor)
             new == Reduce(state.snapshot, entry)
  <2>1. entry \in Entry /\ entry.command = command /\ entry.actor = actor
    BY <1>0 DEF NextEntry, Entry
  <2>2. Remembered(entry).outcome \in Outcome
    BY <2>1 DEF Remembered, Outcome, Entry
  <2>3. new \in Snapshot
    BY <1>0, <2>1, ReduceType
  <2>4. ~ Refused(state.snapshot.threads, command, actor, TRUE)
    BY <1>4, AllowedIsApplied DEF DecidedFor
  <2>5. BytesOf(new.threads) = state.bytes + BytesDelta(state.snapshot.threads, command)
    <3>1. new.threads = ApplyEntry(state.snapshot.threads, entry)
      BY DEF Reduce
    <3>2. BytesOf(ApplyEntry(state.snapshot.threads, entry))
            = BytesOf(state.snapshot.threads) + BytesDelta(state.snapshot.threads, entry.command)
      BY <1>0, <2>1, <2>4, BytesOfApplied
    <3>3. QED
      BY <2>1, <3>1, <3>2
  <2>6. BytesOf(new.threads) \in Nat
    BY <2>3, BytesOfAll DEF Snapshot
  <2>7. decision.entries = <<entry>> /\ decision.outcome = Remembered(entry).outcome
    BY <1>4 DEF DecidedFor
  <2>8. decision.state = [snapshot |-> new, bytes |-> BytesOf(new.threads),
                          remembered |-> Memory(state, actor, Remembered(entry).outcome)]
    BY <1>4, <2>5 DEF DecidedFor
  <2> HIDE DEF entry, new
  <2>9. QED
    BY <1>1, <2>1, <2>2, <2>3, <2>6, <2>7, <2>8 DEF Authority
<1>5. QED
  BY <1>2, <1>3, <1>4, Decisions

-----------------------------------------------------------------------------
\* The types of the state, and what the room and the connections have in common.

Item == [client : Clients, request : Requests, heard : BOOLEAN]

Told == {RateLimited, Stopped} \cup [kind : {"decided"}, outcome : Outcome]

Frame == {Welcome} \cup [kind : {"entries"}, entries : Seq(Entry)]
                   \cup [kind : {"outcome"}, request : Requests, told : Told]

ServerTypes ==
  /\ file \in Seq(Entry) /\ log \in Seq(Entry) /\ retries \in SUBSET Entry /\ loaded \in BOOLEAN
  /\ authority \in Authority
  /\ tail \in Seq(Item) /\ persisting \in Seq(Item) /\ Len(persisting) <= 1

ClientTypes ==
  /\ phase \in [Clients -> {"offline", "joining", "online", "closed"}]
  /\ replica \in [Clients -> Snapshot]
  /\ waiting \in [Clients -> Seq(Requests)]
  /\ outcomes \in [Requests -> {Unanswered} \cup Told]

NetworkTypes ==
  /\ toClient \in [Clients -> Seq(Frame)]
  /\ toServer \in [Clients -> Seq(Requests)]
  /\ stray \in [Clients -> Seq(Requests)]

Types ==
  /\ asked \in Scripts
  /\ ServerTypes /\ ClientTypes /\ NetworkTypes
  /\ drops \in Nat /\ crashes \in Nat /\ failures \in Nat

\* A room that is not there has nothing, and hears nobody.
EmptyUnlessLoaded ==
  ~ loaded => /\ tail = <<>> /\ persisting = <<>> /\ log = <<>>
              /\ \A client \in Clients : stray[client] = <<>> /\ ~ Connected(client)

\* Nothing is under way to or from a client without a connection.
QuietUnlessConnected ==
  \A client \in Clients : ~ Connected(client) => toServer[client] = <<>> /\ toClient[client] = <<>>

\* Requests are sent by the clients that mint them.
OwnItem(item) == item.client = ClientOf[item.request] /\ (item.heard => Connected(item.client))

OwnRequests ==
  /\ \A item \in Range(tail) \cup Range(persisting) : OwnItem(item)
  /\ \A client \in Clients :
       \A request \in Range(waiting[client]) \cup Range(toServer[client]) \cup Range(stray[client]) :
         ClientOf[request] = client

\* The request that is being persisted is that of the last entry.
PersistsLast == persisting # <<>> => log # <<>> /\ persisting[1].request = Last(log).request

\* The room's state is the fold of its log, with the running total that BytesMatch is about.
FoldsLog ==
  /\ authority.snapshot = Fold(log)
  /\ authority.bytes = BytesOf(authority.snapshot.threads)
  /\ Len(authority.remembered) <= MaxRemembered

Base ==
  Types /\ EmptyUnlessLoaded /\ QuietUnlessConnected /\ OwnRequests /\ PersistsLast /\ FoldsLog

LEMMA LoadedAuthority ==
  ASSUME NEW entries \in Seq(Entry)
  PROVE  /\ AuthorityFromLog(entries) \in Authority
         /\ AuthorityFromLog(entries).snapshot = Fold(entries)
         /\ AuthorityFromLog(entries).bytes = BytesOf(Fold(entries).threads)
         /\ Len(AuthorityFromLog(entries).remembered) <= MaxRemembered
         /\ \A past \in Range(AuthorityFromLog(entries).remembered) :
              \E entry \in Range(entries) : past = Remembered(entry)
<1> DEFINE all == [i \in DOMAIN entries |-> Remembered(entries[i])]
<1>1. MaxRemembered \in Nat \ {0}
  BY DiscussionLimitsAssumption
<1>2. \A i \in DOMAIN entries : Remembered(entries[i]) \in Past
  <2>1. \A i \in DOMAIN entries : entries[i] \in Entry
    OBVIOUS
  <2>2. \A entry \in Entry : Remembered(entry) \in Past
    BY DEF Remembered, Past, Outcome, Entry
  <2>3. QED
    BY <2>1, <2>2
<1>3. all \in Seq(Past) /\ DOMAIN all = DOMAIN entries
  BY <1>2
<1>4. Fold(entries) \in Snapshot
  <2>1. 0 \in 0 .. Len(entries)
    OBVIOUS
  <2>2. QED
    BY <2>1, FoldType
<1>5. BytesOf(Fold(entries).threads) \in Nat
  BY <1>4, BytesOfAll DEF Snapshot
<1>6. AuthorityFromLog(entries)
        = [snapshot |-> Fold(entries), remembered |-> LastOf(MaxRemembered, all), bytes |-> BytesOf(Fold(entries).threads)]
  BY DEF AuthorityFromLog
<1>7. /\ LastOf(MaxRemembered, all) \in Seq(Past) /\ Len(LastOf(MaxRemembered, all)) <= MaxRemembered
      /\ \A i \in DOMAIN LastOf(MaxRemembered, all) : \E j \in DOMAIN all : LastOf(MaxRemembered, all)[i] = all[j]
  <2> HIDE DEF all
  <2>1. QED
    BY <1>1, <1>3, LastOfSome
<1>8. \A past \in Range(LastOf(MaxRemembered, all)) : \E entry \in Range(entries) : past = Remembered(entry)
  <2>1. ASSUME NEW past \in Range(LastOf(MaxRemembered, all))
        PROVE  \E entry \in Range(entries) : past = Remembered(entry)
    <3>1. PICK j \in DOMAIN all : past = all[j]
      BY <1>7 DEF Range
    <3>2. past = Remembered(entries[j]) /\ entries[j] \in Range(entries)
      BY <3>1, <1>3 DEF Range
    <3>3. QED
      BY <3>2
  <2>2. QED
    BY <2>1
<1> HIDE DEF all
<1>9. QED
  BY <1>4, <1>5, <1>6, <1>7, <1>8 DEF Authority

LEMMA OneElement ==
  ASSUME NEW E, NEW one \in Seq(E), one # <<>>, Len(one) <= 1
  PROVE  Len(one) = 1 /\ 1 \in DOMAIN one /\ one[1] \in E /\ Range(one) = {one[1]}
<1>1. Len(one) \in Nat /\ Len(one) # 0 /\ DOMAIN one = 1 .. Len(one)
  OBVIOUS
<1>2. Len(one) = 1
  BY <1>1
<1>3. DOMAIN one = {1}
  BY <1>1, <1>2
<1>4. QED
  BY <1>2, <1>3 DEF Range

LEMMA ItemsAreItems ==
  ASSUME Base
  PROVE  \A item \in Range(tail) \cup Range(persisting) :
           item \in Item /\ item.client \in Clients /\ item.request \in Requests
<1>1. tail \in Seq(Item) /\ persisting \in Seq(Item)
  BY DEF Base, Types, ServerTypes
<1>2. Range(tail) \subseteq Item /\ Range(persisting) \subseteq Item
  BY <1>1, RangeIsIn
<1>3. QED
  BY <1>2 DEF Item

LEMMA BaseInit ==
  ASSUME Init
  PROVE  Base
<1>1. <<>> \in Seq(Entry) /\ <<>> \in Seq(Item) /\ <<>> \in Seq(Requests) /\ <<>> \in Seq(Frame) /\ Len(<<>>) = 0
  OBVIOUS
<1>2. AuthorityFromLog(<<>>) \in Authority
  BY <1>1, LoadedAuthority
<1>3. ServerTypes
  <2>1. file \in Seq(Entry) /\ log \in Seq(Entry) /\ retries \in SUBSET Entry /\ loaded \in BOOLEAN
    BY <1>1 DEF Init
  <2>2. tail \in Seq(Item) /\ persisting \in Seq(Item) /\ Len(persisting) <= 1
    BY <1>1 DEF Init
  <2>3. authority \in Authority
    BY <1>2 DEF Init
  <2>4. QED
    BY <2>1, <2>2, <2>3 DEF ServerTypes
<1>4. ClientTypes
  BY <1>1, EmptyType DEF Init, ClientTypes
<1>5. NetworkTypes
  BY <1>1 DEF Init, NetworkTypes
<1>6. Types
  BY <1>3, <1>4, <1>5 DEF Init, Types
<1>7. Range(<<>>) = {}
  BY DEF Range
<1>8. EmptyUnlessLoaded /\ QuietUnlessConnected /\ PersistsLast
  BY DEF Init, EmptyUnlessLoaded, QuietUnlessConnected, PersistsLast, Connected
<1>9. OwnRequests
  BY <1>7 DEF Init, OwnRequests
<1>10. FoldsLog
  BY <1>1, LoadedAuthority DEF Init, FoldsLog
<1>11. QED
  BY <1>6, <1>8, <1>9, <1>10 DEF Base

LEMMA BaseSubmit ==
  ASSUME Base, NEW client \in Clients, NEW request \in Requests, Submit(client, request)
  PROVE  Base'
<1>1. CASE phase[client] = "closed"
  <2>1. /\ outcomes' = [outcomes EXCEPT ![request] = Stopped]
        /\ UNCHANGED <<asked, file, retries, loaded, log, authority, tail, persisting, phase, replica, waiting,
                       toClient, toServer, stray, drops, crashes, failures>>
    BY <1>1 DEF Submit, serverVars, faultVars
  <2>2. ClientTypes'
    BY <2>1 DEF Base, Types, ClientTypes, Told
  <2>3. QED
    BY <2>1, <2>2 DEF Base, Types, ServerTypes, NetworkTypes, EmptyUnlessLoaded, QuietUnlessConnected,
                      OwnRequests, OwnItem, PersistsLast, FoldsLog, Connected
<1>2. CASE phase[client] # "closed"
  <2>1. /\ waiting' = [waiting EXCEPT ![client] = Append(@, request)]
        /\ toServer' = IF phase[client] = "online"
                       THEN [toServer EXCEPT ![client] = Append(@, request)] ELSE toServer
        /\ UNCHANGED <<asked, file, retries, loaded, log, authority, tail, persisting, phase, replica, outcomes,
                       toClient, stray, drops, crashes, failures>>
    BY <1>2 DEF Submit, serverVars, faultVars
  <2>2. waiting[client] \in Seq(Requests) /\ toServer[client] \in Seq(Requests)
    BY DEF Base, Types, ClientTypes, NetworkTypes
  <2>3. ClientTypes' /\ NetworkTypes'
    BY <2>1, <2>2 DEF Base, Types, ClientTypes, NetworkTypes
  <2>4. QuietUnlessConnected'
    BY <2>1 DEF Base, QuietUnlessConnected, Connected, Types, NetworkTypes
  <2>5. OwnRequests'
    <3>1. ClientOf[request] = client
      BY DEF Submit
    <3>2. /\ Range(Append(waiting[client], request)) = Range(waiting[client]) \cup {request}
          /\ Range(Append(toServer[client], request)) = Range(toServer[client]) \cup {request}
      BY <2>2, RangeOfAppend
    <3>3. \A other \in Clients :
            /\ Range(waiting'[other]) \subseteq Range(waiting[other]) \cup (IF other = client THEN {request} ELSE {})
            /\ Range(toServer'[other]) \subseteq Range(toServer[other]) \cup (IF other = client THEN {request} ELSE {})
      BY <2>1, <3>2 DEF Base, Types, ClientTypes, NetworkTypes
    <3>4. QED
      BY <2>1, <3>1, <3>3 DEF Base, OwnRequests, OwnItem, Connected
  <2>6. QED
    BY <2>1, <2>3, <2>4, <2>5 DEF Base, Types, ServerTypes, EmptyUnlessLoaded, PersistsLast, FoldsLog, Connected
<1>3. QED
  BY <1>1, <1>2

LEMMA BaseWelcomeArrives ==
  ASSUME Base, NEW client \in Clients, WelcomeArrives(client)
  PROVE  Base'
<1>1. /\ toClient[client] # <<>>
      /\ phase' = [phase EXCEPT ![client] = "online"]
      /\ toServer' = [toServer EXCEPT ![client] = @ \o waiting[client]]
      /\ toClient' = [toClient EXCEPT ![client] = Tail(@)]
      /\ UNCHANGED <<asked, file, retries, loaded, log, authority, tail, persisting, replica, waiting, outcomes,
                     stray, drops, crashes, failures>>
  BY DEF WelcomeArrives, serverVars, faultVars, Resent
<1>2. waiting[client] \in Seq(Requests) /\ toServer[client] \in Seq(Requests) /\ toClient[client] \in Seq(Frame)
  BY DEF Base, Types, ClientTypes, NetworkTypes
<1>3. /\ toServer[client] \o waiting[client] \in Seq(Requests) /\ Tail(toClient[client]) \in Seq(Frame)
      /\ Range(toServer[client] \o waiting[client]) = Range(toServer[client]) \cup Range(waiting[client])
  BY <1>1, <1>2, RangeOfJoin, RangeOfTail
<1>4. Connected(client) /\ loaded
  BY <1>1 DEF Base, QuietUnlessConnected, EmptyUnlessLoaded
<1>5. ClientTypes' /\ NetworkTypes'
  BY <1>1, <1>3 DEF Base, Types, ClientTypes, NetworkTypes
<1>6. \A other \in Clients : Connected(other)' = Connected(other)
  BY <1>1, <1>4 DEF Connected, Base, Types, ClientTypes
<1>7. QuietUnlessConnected'
  BY <1>1, <1>4, <1>6 DEF Base, QuietUnlessConnected, Types, NetworkTypes
<1>8. OwnRequests'
  <2>1. \A item \in Range(tail) \cup Range(persisting) : item.client \in Clients
    BY ItemsAreItems
  <2>2. \A item \in Range(tail') \cup Range(persisting') : OwnItem(item)'
    BY <1>1, <1>6, <2>1 DEF Base, OwnRequests, OwnItem
  <2>3. \A other \in Clients : Range(toServer'[other]) \subseteq Range(toServer[other]) \cup Range(waiting[other])
    BY <1>1, <1>3 DEF Base, Types, NetworkTypes
  <2>4. QED
    BY <1>1, <2>2, <2>3 DEF Base, OwnRequests
<1>9. QED
  BY <1>1, <1>4, <1>5, <1>7, <1>8 DEF Base, Types, ServerTypes, EmptyUnlessLoaded, PersistsLast, FoldsLog

LEMMA TakenType ==
  ASSUME NEW snapshot \in Snapshot, NEW entries \in Seq(Entry)
  PROVE  Taken(snapshot, entries) \in Snapshot
<1> DEFINE S == {k \in Nat : k <= Len(entries) => Taken(snapshot, SubSeq(entries, 1, k)) \in Snapshot}
<1>0. Len(entries) \in Nat /\ Len(entries) \in 0 .. Len(entries) /\ 0 \in 0 .. Len(entries)
  OBVIOUS
<1>1. 0 \in S
  <2>1. SubSeq(entries, 1, 0) = <<>>
    BY <1>0, PrefixFacts
  <2>2. QED
    BY <2>1, TakenOfNothing
<1>2. ASSUME NEW k \in Nat, k \in S
      PROVE  k + 1 \in S
  <2>1. ASSUME k + 1 <= Len(entries)
        PROVE  Taken(snapshot, SubSeq(entries, 1, k + 1)) \in Snapshot
    <3>1. k < Len(entries) /\ entries[k + 1] \in Entry /\ k <= Len(entries) /\ k \in 0 .. Len(entries)
      BY <2>1
    <3>2. SubSeq(entries, 1, k) \in Seq(Entry)
      BY <3>1, PrefixFacts
    <3>3. SubSeq(entries, 1, k + 1) = Append(SubSeq(entries, 1, k), entries[k + 1])
      BY <3>1, NextPrefix
    <3>4. Taken(snapshot, SubSeq(entries, 1, k + 1))
            = Received(Taken(snapshot, SubSeq(entries, 1, k)), entries[k + 1])
      BY <3>1, <3>2, <3>3, TakenOfAppend
    <3>5. Taken(snapshot, SubSeq(entries, 1, k)) \in Snapshot
      BY <1>2, <3>1
    <3>6. QED
      BY <3>1, <3>4, <3>5, ReduceType DEF Received
  <2>2. QED
    BY <2>1
<1>3. Nat \subseteq S
  BY <1>1, <1>2, SetInduction
<1>4. Taken(snapshot, SubSeq(entries, 1, Len(entries))) \in Snapshot
  BY <1>0, <1>3
<1>5. SubSeq(entries, 1, Len(entries)) = entries
  BY <1>0, PrefixFacts
<1>6. QED
  BY <1>4, <1>5

LEMMA BaseEntriesArrive ==
  ASSUME Base, NEW client \in Clients, EntriesArrive(client)
  PROVE  Base'
<1> DEFINE frame == Head(toClient[client])
           new == Taken(replica[client], frame.entries)
<1>1. /\ toClient[client] # <<>> /\ frame.kind = "entries"
      /\ replica' = [replica EXCEPT ![client] = new]
      /\ toClient' = [toClient EXCEPT ![client] = Tail(@)]
      /\ UNCHANGED <<asked, file, retries, loaded, log, authority, tail, persisting, phase, waiting, outcomes,
                     toServer, stray, drops, crashes, failures>>
  BY DEF EntriesArrive, serverVars, faultVars, Taken
<1>2. toClient[client] \in Seq(Frame) /\ replica[client] \in Snapshot
  BY DEF Base, Types, ClientTypes, NetworkTypes
<1>3. frame \in Frame /\ Tail(toClient[client]) \in Seq(Frame)
  BY <1>1, <1>2, RangeOfTail
<1>4. frame.entries \in Seq(Entry)
  BY <1>1, <1>3 DEF Frame, Welcome
<1>5. new \in Snapshot
  BY <1>2, <1>4, TakenType
<1> HIDE DEF new, frame
<1>6. ClientTypes' /\ NetworkTypes'
  BY <1>1, <1>3, <1>5 DEF Base, Types, ClientTypes, NetworkTypes
<1>7. \A other \in Clients : toClient[other] = <<>> => toClient'[other] = <<>>
  BY <1>1 DEF Base, Types, NetworkTypes
<1>8. QED
  BY <1>1, <1>6, <1>7 DEF Base, Types, ServerTypes, EmptyUnlessLoaded, QuietUnlessConnected, OwnRequests, OwnItem,
                          PersistsLast, FoldsLog, Connected

LEMMA BaseOutcomeArrives ==
  ASSUME Base, NEW client \in Clients, OutcomeArrives(client)
  PROVE  Base'
<1> DEFINE answer == Head(toClient[client])
           left == Kept(waiting[client], Requests \ {answer.request})
<1>1. /\ toClient[client] # <<>> /\ answer.kind = "outcome"
      /\ waiting' = [waiting EXCEPT ![client] = left]
      /\ outcomes' = IF answer.request \in Range(waiting[client])
                     THEN [outcomes EXCEPT ![answer.request] = answer.told] ELSE outcomes
      /\ toClient' = [toClient EXCEPT ![client] = Tail(@)]
      /\ UNCHANGED <<asked, file, retries, loaded, log, authority, tail, persisting, phase, replica,
                     toServer, stray, drops, crashes, failures>>
  BY DEF OutcomeArrives, serverVars, faultVars
<1>2. toClient[client] \in Seq(Frame) /\ waiting[client] \in Seq(Requests)
  BY DEF Base, Types, ClientTypes, NetworkTypes
<1>3. answer \in Frame /\ Tail(toClient[client]) \in Seq(Frame)
  BY <1>1, <1>2, RangeOfTail
<1>4. answer.request \in Requests /\ answer.told \in Told
  BY <1>1, <1>3 DEF Frame, Welcome
<1>5. left \in Seq(Requests) /\ Range(left) \subseteq Range(waiting[client])
  BY <1>2, KeptElements, RangeOfKept
<1> HIDE DEF left, answer
<1>6. ClientTypes' /\ NetworkTypes'
  BY <1>1, <1>3, <1>4, <1>5 DEF Base, Types, ClientTypes, NetworkTypes
<1>7. \A other \in Clients : /\ toClient[other] = <<>> => toClient'[other] = <<>>
                             /\ Range(waiting'[other]) \subseteq Range(waiting[other])
  BY <1>1, <1>5 DEF Base, Types, ClientTypes, NetworkTypes
<1>8. OwnRequests'
  BY <1>1, <1>7 DEF Base, OwnRequests, OwnItem, Connected
<1>9. QED
  BY <1>1, <1>6, <1>7, <1>8 DEF Base, Types, ServerTypes, EmptyUnlessLoaded, QuietUnlessConnected,
                                PersistsLast, FoldsLog, Connected

LEMMA FollowingType ==
  ASSUME NEW entries \in Seq(Entry), NEW sequence
  PROVE  Following(entries, sequence) \in Seq(Entry)
BY KeptElements DEF Following

LEMMA BaseConnect ==
  ASSUME Base, NEW client \in Clients, Connect(client)
  PROVE  Base'
<1> DEFINE sent == <<Welcome, EntriesFrame(Following(log', replica[client].sequence))>>
<1>1. /\ phase[client] = "offline" /\ loaded' = TRUE
      /\ log' = IF loaded THEN log ELSE file
      /\ authority' = IF loaded THEN authority ELSE AuthorityFromLog(file)
      /\ phase' = [phase EXCEPT ![client] = "joining"]
      /\ toClient' = [toClient EXCEPT ![client] = sent]
      /\ UNCHANGED <<asked, file, retries, tail, persisting, replica, waiting, outcomes, toServer, stray,
                     drops, crashes, failures>>
  BY DEF Connect, faultVars
<1>2. file \in Seq(Entry) /\ log' \in Seq(Entry)
  BY <1>1 DEF Base, Types, ServerTypes
<1>3. sent \in Seq(Frame)
  <2>1. Following(log', replica[client].sequence) \in Seq(Entry)
    BY <1>2, FollowingType
  <2>2. EntriesFrame(Following(log', replica[client].sequence)) \in Frame /\ Welcome \in Frame
    BY <2>1 DEF EntriesFrame, Frame
  <2>3. QED
    BY <2>2
<1> HIDE DEF sent
<1>4. authority' \in Authority
  BY <1>1, <1>2, LoadedAuthority DEF Base, Types, ServerTypes
<1>5. ServerTypes'
  BY <1>1, <1>2, <1>4 DEF Base, Types, ServerTypes
<1>6. ClientTypes' /\ NetworkTypes'
  BY <1>1, <1>3 DEF Base, Types, ClientTypes, NetworkTypes
<1>7. FoldsLog'
  BY <1>1, <1>2, LoadedAuthority DEF Base, FoldsLog
<1>8. \A other \in Clients : Connected(other) => Connected(other)'
  BY <1>1 DEF Connected, Base, Types, ClientTypes
<1>9. QuietUnlessConnected'
  BY <1>1 DEF Base, Types, ClientTypes, NetworkTypes, QuietUnlessConnected, Connected
<1>10. OwnRequests'
  BY <1>1, <1>8, ItemsAreItems DEF Base, OwnRequests, OwnItem
<1>11. PersistsLast' /\ EmptyUnlessLoaded'
  BY <1>1 DEF Base, PersistsLast, EmptyUnlessLoaded
<1>12. QED
  BY <1>1, <1>5, <1>6, <1>7, <1>9, <1>10, <1>11 DEF Base, Types

\* Requests of a connection that is gone are still there, and heard by nobody.
UnheardItem(item, client) == [item EXCEPT !.heard = @ /\ item.client # client]

LEMMA UnheardItems ==
  ASSUME NEW items \in Seq(Item), NEW client \in Clients
  PROVE  /\ Unheard(items, client) \in Seq(Item) /\ Len(Unheard(items, client)) = Len(items)
         /\ items = <<>> => Unheard(items, client) = <<>>
         /\ \A i \in DOMAIN items : /\ Unheard(items, client)[i].client = items[i].client
                                    /\ Unheard(items, client)[i].request = items[i].request
         /\ \A item \in Range(Unheard(items, client)) :
              \E past \in Range(items) : /\ item.client = past.client /\ item.request = past.request
                                         /\ item.heard => past.heard /\ past.client # client
<1> DEFINE new == Unheard(items, client)
<1>1. \A i \in DOMAIN items : items[i] \in Item
  OBVIOUS
<1>2. ASSUME NEW item \in Item
      PROVE  /\ UnheardItem(item, client) \in Item
             /\ UnheardItem(item, client).client = item.client /\ UnheardItem(item, client).request = item.request
             /\ UnheardItem(item, client).heard => item.heard /\ item.client # client
  BY DEF Item, UnheardItem
<1>3. DOMAIN new = DOMAIN items /\ \A i \in DOMAIN items : new[i] = UnheardItem(items[i], client)
  BY DEF Unheard, UnheardItem
<1> HIDE DEF new
<1>4. \A i \in DOMAIN items : /\ new[i] \in Item /\ new[i].client = items[i].client /\ new[i].request = items[i].request
                              /\ new[i].heard => items[i].heard /\ items[i].client # client
  BY <1>1, <1>2, <1>3
<1>5. new \in Seq(Item) /\ Len(new) = Len(items)
  <2>1. new = [i \in DOMAIN items |-> new[i]]
    BY DEF new, Unheard
  <2>2. DOMAIN items = 1 .. Len(items) /\ Len(items) \in Nat
    OBVIOUS
  <2>3. QED
    BY <1>4, <2>1, <2>2
<1>6. items = <<>> => new = <<>>
  BY <1>5
<1>7. \A item \in Range(new) :
        \E past \in Range(items) : /\ item.client = past.client /\ item.request = past.request
                                   /\ item.heard => past.heard /\ past.client # client
  <2>1. ASSUME NEW item \in Range(new)
        PROVE  \E past \in Range(items) : /\ item.client = past.client /\ item.request = past.request
                                          /\ item.heard => past.heard /\ past.client # client
    <3>1. PICK i \in DOMAIN items : item = new[i]
      BY <1>3 DEF Range
    <3>2. items[i] \in Range(items)
      BY DEF Range
    <3>3. QED
      BY <1>4, <3>1, <3>2
  <2>2. QED
    BY <2>1
<1>8. QED
  BY <1>4, <1>5, <1>6, <1>7 DEF new

\* A connection that is gone, whatever becomes of its client.
LEMMA BaseLose ==
  ASSUME Base, NEW client \in Clients, Lose(client), NEW gone \in {"offline", "closed"},
         phase' = [phase EXCEPT ![client] = gone],
         UNCHANGED <<file, retries, loaded, log, authority>>,
         \A other \in Clients : waiting'[other] = waiting[other] \/ waiting'[other] = <<>>
  PROVE  /\ ServerTypes' /\ NetworkTypes' /\ EmptyUnlessLoaded' /\ QuietUnlessConnected' /\ OwnRequests'
         /\ PersistsLast' /\ FoldsLog'
<1>1. /\ toClient' = [toClient EXCEPT ![client] = <<>>]
      /\ toServer' = [toServer EXCEPT ![client] = <<>>]
      /\ stray' = [stray EXCEPT ![client] = @ \o toServer[client]]
      /\ tail' = Unheard(tail, client)
      /\ persisting' = Unheard(persisting, client)
  BY DEF Lose
<1>2. /\ toServer[client] \in Seq(Requests) /\ stray[client] \in Seq(Requests) /\ tail \in Seq(Item)
      /\ persisting \in Seq(Item) /\ Len(persisting) <= 1
  BY DEF Base, Types, ServerTypes, NetworkTypes
<1>3. /\ stray[client] \o toServer[client] \in Seq(Requests)
      /\ Range(stray[client] \o toServer[client]) = Range(stray[client]) \cup Range(toServer[client])
  BY <1>2, RangeOfJoin
<1>4. ServerTypes'
  BY <1>1, <1>2, UnheardItems DEF Base, Types, ServerTypes
<1>5. NetworkTypes'
  <2>1. <<>> \in Seq(Frame) /\ <<>> \in Seq(Requests)
    OBVIOUS
  <2>2. QED
    BY <1>1, <1>3, <2>1 DEF Base, Types, NetworkTypes
<1>6. \A other \in Clients : /\ other # client => (Connected(other)' = Connected(other))
                             /\ other = client => ~ Connected(other)'
                             /\ Connected(other)' => Connected(other)
  BY DEF Connected, Base, Types, ClientTypes
<1>7. QuietUnlessConnected'
  BY <1>1, <1>6 DEF Base, QuietUnlessConnected, Types, NetworkTypes
<1>8. EmptyUnlessLoaded'
  <2>1. ASSUME ~ loaded
        PROVE  /\ tail' = <<>> /\ persisting' = <<>> /\ log' = <<>>
               /\ \A other \in Clients : stray'[other] = <<>> /\ ~ Connected(other)'
    <3>1. tail' = <<>> /\ persisting' = <<>> /\ log' = <<>>
      BY <1>1, <1>2, <2>1, UnheardItems DEF Base, EmptyUnlessLoaded
    <3>2. toServer[client] = <<>> /\ stray[client] = <<>>
      BY <2>1 DEF Base, EmptyUnlessLoaded, QuietUnlessConnected
    <3>3. stray[client] \o toServer[client] = <<>>
      BY <3>2
    <3>4. \A other \in Clients : stray'[other] = <<>>
      BY <1>1, <2>1, <3>3 DEF Base, EmptyUnlessLoaded, Types, NetworkTypes
    <3>5. QED
      BY <1>6, <2>1, <3>1, <3>4 DEF Base, EmptyUnlessLoaded
  <2>2. QED
    BY <2>1 DEF EmptyUnlessLoaded
<1>9. OwnRequests'
  <2>1. ASSUME NEW item \in Range(tail') \cup Range(persisting')
        PROVE  OwnItem(item)'
    <3>1. PICK past \in Range(tail) \cup Range(persisting) :
            item.client = past.client /\ item.request = past.request /\ (item.heard => past.heard /\ past.client # client)
      BY <1>1, <1>2, UnheardItems
    <3>2. OwnItem(past) /\ past.client \in Clients
      BY ItemsAreItems DEF Base, OwnRequests
    <3>3. QED
      BY <1>6, <3>1, <3>2 DEF OwnItem
  <2>2. \A other \in Clients :
          /\ Range(waiting'[other]) \subseteq Range(waiting[other])
          /\ Range(toServer'[other]) \subseteq Range(toServer[other])
          /\ Range(stray'[other]) \subseteq Range(stray[other]) \cup Range(toServer[other])
    <3>1. Range(<<>>) = {}
      BY DEF Range
    <3>2. QED
      BY <1>1, <1>3, <3>1 DEF Base, Types, NetworkTypes
  <2>3. QED
    BY <2>1, <2>2 DEF Base, OwnRequests
<1>10. PersistsLast'
  <2>1. ASSUME persisting' # <<>>
        PROVE  log' # <<>> /\ persisting'[1].request = Last(log').request
    <3>a. persisting # <<>>
      BY <1>1, <1>2, <2>1, UnheardItems
    <3>1. persisting # <<>> /\ Len(persisting) = 1
      BY <1>2, <3>a, OneElement
    <3>2. 1 \in DOMAIN persisting
      BY <1>2, <3>1
    <3>3. persisting'[1].request = persisting[1].request
      BY <1>1, <1>2, <3>2, UnheardItems
    <3>4. QED
      BY <3>1, <3>3 DEF Base, PersistsLast
  <2>2. QED
    BY <2>1 DEF PersistsLast
<1>11. FoldsLog'
  BY DEF Base, FoldsLog
<1>12. QED
  BY <1>4, <1>5, <1>7, <1>8, <1>9, <1>10, <1>11

LEMMA BaseDrop ==
  ASSUME Base, NEW client \in Clients, Drop(client)
  PROVE  Base'
<1>1. /\ Lose(client) /\ phase' = [phase EXCEPT ![client] = "offline"] /\ drops' = drops + 1
      /\ UNCHANGED <<asked, file, retries, loaded, log, authority, replica, waiting, outcomes, crashes, failures>>
  BY DEF Drop
<1>2. /\ ServerTypes' /\ NetworkTypes' /\ EmptyUnlessLoaded' /\ QuietUnlessConnected' /\ OwnRequests'
      /\ PersistsLast' /\ FoldsLog'
  BY <1>1, BaseLose
<1>3. ClientTypes' /\ drops' \in Nat
  BY <1>1 DEF Base, Types, ClientTypes
<1>4. QED
  BY <1>1, <1>2, <1>3 DEF Base, Types

LEMMA BaseStop ==
  ASSUME Base, NEW client \in Clients, Stop(client)
  PROVE  Base'
<1>1. /\ Lose(client) /\ phase' = [phase EXCEPT ![client] = "closed"]
      /\ waiting' = [waiting EXCEPT ![client] = <<>>]
      /\ outcomes' = [request \in Requests |->
                        IF request \in Range(waiting[client]) THEN Stopped ELSE outcomes[request]]
      /\ UNCHANGED <<asked, file, retries, loaded, log, authority, replica, drops, crashes, failures>>
  BY DEF Stop, faultVars
<1>2. \A other \in Clients : waiting'[other] = waiting[other] \/ waiting'[other] = <<>>
  BY <1>1 DEF Base, Types, ClientTypes
<1>3. /\ ServerTypes' /\ NetworkTypes' /\ EmptyUnlessLoaded' /\ QuietUnlessConnected' /\ OwnRequests'
      /\ PersistsLast' /\ FoldsLog'
  BY <1>1, <1>2, BaseLose
<1>4. ClientTypes'
  <2>1. <<>> \in Seq(Requests) /\ Stopped \in Told
    BY DEF Told
  <2>2. QED
    BY <1>1, <2>1 DEF Base, Types, ClientTypes
<1>5. QED
  BY <1>1, <1>3, <1>4 DEF Base, Types

LEMMA BaseArrives ==
  ASSUME Base, NEW client \in Clients, Arrives(client)
  PROVE  Base'
<1> DEFINE item == [client |-> client, request |-> Head(toServer[client]), heard |-> TRUE]
<1>1. /\ toServer[client] # <<>>
      /\ tail' = Append(tail, item)
      /\ toServer' = [toServer EXCEPT ![client] = Tail(@)]
      /\ UNCHANGED <<asked, file, retries, loaded, log, authority, persisting, phase, replica, waiting, outcomes,
                     toClient, stray, drops, crashes, failures>>
  BY DEF Arrives, clientVars, faultVars
<1>2. toServer[client] \in Seq(Requests) /\ tail \in Seq(Item)
  BY DEF Base, Types, ServerTypes, NetworkTypes
<1>3. /\ Head(toServer[client]) \in Requests /\ Tail(toServer[client]) \in Seq(Requests)
      /\ Head(toServer[client]) \in Range(toServer[client])
      /\ Range(Tail(toServer[client])) \subseteq Range(toServer[client])
  BY <1>1, <1>2, RangeOfTail
<1>4. item \in Item
  BY <1>3 DEF Item
<1>6. Connected(client) /\ loaded
  BY <1>1 DEF Base, QuietUnlessConnected, EmptyUnlessLoaded
<1>7. OwnItem(item)
  BY <1>3, <1>6 DEF Base, OwnRequests, OwnItem
<1> HIDE DEF item
<1>5. Append(tail, item) \in Seq(Item) /\ Range(Append(tail, item)) = Range(tail) \cup {item}
  BY <1>2, <1>4, RangeOfAppend
<1>8. ServerTypes' /\ NetworkTypes'
  BY <1>1, <1>3, <1>5 DEF Base, Types, ServerTypes, NetworkTypes
<1>9. \A other \in Clients : /\ toServer[other] = <<>> => toServer'[other] = <<>>
                             /\ Range(toServer'[other]) \subseteq Range(toServer[other])
  BY <1>1, <1>3 DEF Base, Types, NetworkTypes
<1>10. QuietUnlessConnected'
  BY <1>1, <1>9 DEF Base, QuietUnlessConnected, Connected
<1>11. OwnRequests'
  BY <1>1, <1>5, <1>7, <1>9 DEF Base, OwnRequests, OwnItem, Connected
<1>12. QED
  BY <1>1, <1>6, <1>8, <1>10, <1>11 DEF Base, Types, ClientTypes, EmptyUnlessLoaded, PersistsLast, FoldsLog

LEMMA BaseStrayArrives ==
  ASSUME Base, NEW client \in Clients, StrayArrives(client)
  PROVE  Base'
<1> DEFINE item == [client |-> client, request |-> Head(stray[client]), heard |-> FALSE]
<1>1. /\ stray[client] # <<>>
      /\ tail' = Append(tail, item)
      /\ stray' = [stray EXCEPT ![client] = Tail(@)]
      /\ UNCHANGED <<asked, file, retries, loaded, log, authority, persisting, phase, replica, waiting, outcomes,
                     toClient, toServer, drops, crashes, failures>>
  BY DEF StrayArrives, clientVars, faultVars
<1>2. stray[client] \in Seq(Requests) /\ tail \in Seq(Item)
  BY DEF Base, Types, ServerTypes, NetworkTypes
<1>3. /\ Head(stray[client]) \in Requests /\ Tail(stray[client]) \in Seq(Requests)
      /\ Head(stray[client]) \in Range(stray[client])
      /\ Range(Tail(stray[client])) \subseteq Range(stray[client])
  BY <1>1, <1>2, RangeOfTail
<1>4. item \in Item
  BY <1>3 DEF Item
<1>6. loaded
  BY <1>1 DEF Base, EmptyUnlessLoaded
<1>7. OwnItem(item)
  BY <1>3 DEF Base, OwnRequests, OwnItem
<1> HIDE DEF item
<1>5. Append(tail, item) \in Seq(Item) /\ Range(Append(tail, item)) = Range(tail) \cup {item}
  BY <1>2, <1>4, RangeOfAppend
<1>8. ServerTypes' /\ NetworkTypes'
  BY <1>1, <1>3, <1>5 DEF Base, Types, ServerTypes, NetworkTypes
<1>9. \A other \in Clients : Range(stray'[other]) \subseteq Range(stray[other])
  BY <1>1, <1>3 DEF Base, Types, NetworkTypes
<1>10. OwnRequests'
  BY <1>1, <1>5, <1>7, <1>9 DEF Base, OwnRequests, OwnItem, Connected
<1>11. QED
  BY <1>1, <1>6, <1>8, <1>10 DEF Base, Types, ClientTypes, EmptyUnlessLoaded, QuietUnlessConnected, Connected,
                                PersistsLast, FoldsLog

LEMMA BaseRefusedAtRate ==
  ASSUME Base, NEW client \in Clients, RefusedAtRate(client)
  PROVE  Base'
<1> DEFINE frame == OutcomeFrame(Head(toServer[client]), RateLimited)
<1>1. /\ toServer[client] # <<>>
      /\ toClient' = [toClient EXCEPT ![client] = Append(@, frame)]
      /\ toServer' = [toServer EXCEPT ![client] = Tail(@)]
      /\ UNCHANGED <<asked, file, retries, loaded, log, authority, tail, persisting, phase, replica, waiting, outcomes,
                     stray, drops, crashes, failures>>
  BY DEF RefusedAtRate, serverVars, clientVars, faultVars
<1>2. toServer[client] \in Seq(Requests) /\ toClient[client] \in Seq(Frame)
  BY DEF Base, Types, NetworkTypes
<1>3. /\ Head(toServer[client]) \in Requests /\ Tail(toServer[client]) \in Seq(Requests)
      /\ Range(Tail(toServer[client])) \subseteq Range(toServer[client])
  BY <1>1, <1>2, RangeOfTail
<1>4. frame \in Frame
  BY <1>3 DEF Frame, OutcomeFrame, Told
<1> HIDE DEF frame
<1>5. Append(toClient[client], frame) \in Seq(Frame)
  BY <1>2, <1>4
<1>6. Connected(client)
  BY <1>1 DEF Base, QuietUnlessConnected
<1>7. NetworkTypes'
  BY <1>1, <1>3, <1>5 DEF Base, Types, NetworkTypes
<1>8. \A other \in Clients : /\ other # client => toServer'[other] = toServer[other] /\ toClient'[other] = toClient[other]
                             /\ Range(toServer'[other]) \subseteq Range(toServer[other])
  BY <1>1, <1>3 DEF Base, Types, NetworkTypes
<1>9. QuietUnlessConnected'
  BY <1>1, <1>6, <1>8 DEF Base, QuietUnlessConnected, Connected
<1>10. OwnRequests'
  BY <1>1, <1>8 DEF Base, OwnRequests, OwnItem, Connected
<1>11. QED
  BY <1>1, <1>7, <1>9, <1>10 DEF Base, Types, ClientTypes, ServerTypes, EmptyUnlessLoaded, Connected, PersistsLast, FoldsLog

\* Frames to the sender of a request, when it is still heard.
LEMMA Answered ==
  ASSUME Base, NEW channels \in [Clients -> Seq(Frame)], NEW item \in Item, OwnItem(item), NEW outcome \in Outcome
  PROVE  /\ Answer(channels, item, outcome) \in [Clients -> Seq(Frame)]
         /\ \A client \in Clients :
              \/ Answer(channels, item, outcome)[client] = channels[client]
              \/ /\ Connected(client)
                 /\ Answer(channels, item, outcome)[client]
                      = Append(channels[client], OutcomeFrame(item.request, Decided(outcome)))
<1> DEFINE frame == OutcomeFrame(item.request, Decided(outcome))
<1>1. frame \in Frame
  BY DEF Frame, OutcomeFrame, Told, Decided, Item
<1>2. item.client \in Clients
  BY DEF Item
<1> HIDE DEF frame
<1>3. CASE item.heard
  <2>1. Answer(channels, item, outcome) = [channels EXCEPT ![item.client] = Append(channels[item.client], frame)]
    BY <1>3 DEF Answer, frame
  <2>2. Connected(item.client)
    BY <1>3 DEF OwnItem
  <2>3. Append(channels[item.client], frame) \in Seq(Frame)
    BY <1>1, <1>2
  <2>4. QED
    BY <1>2, <2>1, <2>2, <2>3 DEF frame
<1>4. CASE ~ item.heard
  BY <1>4 DEF Answer
<1>5. QED
  BY <1>3, <1>4

\* What the room decides about the first request of its tail.
Decision(item) ==
  Decide(authority, item.request, asked[item.request], PersonOf[item.client], RoleOfClient[item.client])

LEMMA FirstItem ==
  ASSUME Base, tail # <<>>
  PROVE  /\ Head(tail) \in Item /\ OwnItem(Head(tail)) /\ Head(tail) \in Range(tail)
         /\ Head(tail).request \in Requests /\ Head(tail).client = ClientOf[Head(tail).request]
         /\ Head(tail).client \in Clients
         /\ asked[Head(tail).request] \in Commands /\ PersonOf[Head(tail).client] \in People
         /\ Tail(tail) \in Seq(Item) /\ Range(tail) = {Head(tail)} \cup Range(Tail(tail)) /\ loaded
<1>1. tail \in Seq(Item) /\ asked \in [Requests -> Commands]
  BY DiscussionAssumption DEF Base, Types, ServerTypes
<1>2. /\ Head(tail) \in Item /\ Head(tail) \in Range(tail) /\ Tail(tail) \in Seq(Item)
      /\ Range(tail) = {Head(tail)} \cup Range(Tail(tail))
  BY <1>1, RangeOfTail
<1>3. OwnItem(Head(tail)) /\ loaded
  BY <1>2 DEF Base, OwnRequests, EmptyUnlessLoaded
<1>4. Head(tail).request \in Requests /\ Head(tail).client \in Clients
  BY <1>2 DEF Item
<1>5. QED
  BY <1>1, <1>2, <1>3, <1>4, DiscussionAssumption DEF OwnItem

LEMMA BaseDecideNext ==
  ASSUME Base, DecideNext
  PROVE  Base'
<1> DEFINE item == Head(tail)
           decision == Decision(item)
<1>1. /\ tail # <<>> /\ persisting = <<>>
      /\ authority' = decision.state /\ log' = log \o decision.entries
      /\ IF decision.entries = <<>>
         THEN toClient' = Answer(toClient, item, decision.outcome) /\ persisting' = persisting
         ELSE persisting' = <<item>> /\ toClient' = toClient
      /\ tail' = Tail(tail)
      /\ UNCHANGED <<asked, file, retries, loaded, phase, replica, waiting, outcomes, toServer, stray,
                     drops, crashes, failures>>
  BY DEF DecideNext, Decision, clientVars, faultVars
<1>2. /\ item \in Item /\ OwnItem(item) /\ item.request \in Requests /\ item.client \in Clients
      /\ asked[item.request] \in Commands /\ PersonOf[item.client] \in People
      /\ Tail(tail) \in Seq(Item) /\ Range(Tail(tail)) \subseteq Range(tail) /\ loaded
  BY <1>1, FirstItem
<1>3. authority \in Authority /\ authority.bytes = BytesOf(authority.snapshot.threads) /\ log \in Seq(Entry)
  BY DEF Base, Types, ServerTypes, FoldsLog
<1>4. /\ decision.outcome \in Outcome /\ decision.state \in Authority
      /\ decision.entries = <<>> \/ \E entry \in Entry : decision.entries = <<entry>>
      /\ decision.state.bytes = BytesOf(decision.state.snapshot.threads)
      /\ Len(decision.state.remembered) <= MaxRemembered \/ decision.state = authority
  BY <1>2, <1>3, DecisionType DEF Decision
<1>5. \/ DecidedBefore(decision, authority, item.request, PersonOf[item.client])
      \/ DecidedAgainst(decision, authority, item.request, PersonOf[item.client])
      \/ DecidedFor(decision, authority, item.request, asked[item.request], PersonOf[item.client], RoleOfClient[item.client])
  BY <1>2, <1>3, Decisions DEF Decision
<1> HIDE DEF decision
<1>6. CASE decision.entries = <<>>
  <2>1. log' = log /\ persisting' = <<>> /\ toClient' = Answer(toClient, item, decision.outcome)
    BY <1>1, <1>3, <1>6
  <2>2. decision.state.snapshot = authority.snapshot
    BY <1>5, <1>6 DEF DecidedBefore, DecidedAgainst, DecidedFor
  <2>3. FoldsLog'
    BY <1>1, <1>4, <2>1, <2>2 DEF Base, FoldsLog
  <2>4. /\ toClient' \in [Clients -> Seq(Frame)]
        /\ \A client \in Clients : ~ Connected(client) => toClient'[client] = toClient[client]
    BY <1>2, <1>4, <2>1, Answered DEF Base, Types, NetworkTypes
  <2>5. ServerTypes' /\ NetworkTypes'
    BY <1>1, <1>2, <1>4, <2>1, <2>4 DEF Base, Types, ServerTypes, NetworkTypes
  <2>6. QuietUnlessConnected' /\ OwnRequests'
    BY <1>1, <1>2, <2>1, <2>4 DEF Base, QuietUnlessConnected, OwnRequests, OwnItem, Connected
  <2>7. QED
    BY <1>1, <1>2, <2>1, <2>3, <2>5, <2>6 DEF Base, Types, ClientTypes, EmptyUnlessLoaded, PersistsLast
<1>7. CASE decision.entries # <<>>
  <2> DEFINE entry == NextEntry(authority, item.request, asked[item.request], PersonOf[item.client])
  <2>1. decision.entries = <<entry>> /\ decision.state.snapshot = Reduce(authority.snapshot, entry)
        /\ Len(decision.state.remembered) <= MaxRemembered
    <3>1. DecidedFor(decision, authority, item.request, asked[item.request], PersonOf[item.client], RoleOfClient[item.client])
      BY <1>5, <1>7 DEF DecidedBefore, DecidedAgainst
    <3>2. Len(decision.state.remembered) <= MaxRemembered
      BY <1>4 DEF Base, FoldsLog
    <3>3. QED
      BY <3>1, <3>2 DEF DecidedFor
  <2>2. entry \in Entry
    BY <1>4, <1>7, <2>1
  <2>3. entry.request = item.request
    BY DEF NextEntry
  <2> HIDE DEF entry
  <2>4. log' = Append(log, entry) /\ log' \in Seq(Entry) /\ log' # <<>> /\ Last(log') = entry
    <3>1. log \o <<entry>> = Append(log, entry) /\ Append(log, entry) \in Seq(Entry)
      BY <1>3, <2>2
    <3>2. Last(Append(log, entry)) = entry /\ Append(log, entry) # <<>>
      BY <1>3, <2>2 DEF Last
    <3>3. QED
      BY <1>1, <2>1, <3>1, <3>2
  <2>5. FoldsLog'
    <3>1. Fold(log') = Reduce(Fold(log), entry)
      BY <1>3, <2>2, <2>4, FoldOfAppend
    <3>2. QED
      BY <1>1, <1>4, <2>1, <3>1 DEF Base, FoldsLog
  <2>6. persisting' = <<item>> /\ persisting' \in Seq(Item) /\ Len(persisting') <= 1 /\ Range(persisting') = {item}
        /\ persisting'[1] = item
    <3>1. <<item>> \in Seq(Item) /\ Len(<<item>>) = 1 /\ <<item>>[1] = item /\ Range(<<item>>) = {item}
      BY <1>2 DEF Range
    <3>2. persisting' = <<item>>
      BY <1>1, <1>7
    <3>3. QED
      BY <3>1, <3>2
  <2>7. ServerTypes'
    BY <1>1, <1>2, <1>4, <2>4, <2>6 DEF Base, Types, ServerTypes
  <2>8. OwnRequests'
    BY <1>1, <1>2, <1>7, <2>6 DEF Base, OwnRequests, OwnItem, Connected
  <2>9. PersistsLast'
    BY <2>3, <2>4, <2>6 DEF PersistsLast
  <2>10. QED
    BY <1>1, <1>2, <1>7, <2>5, <2>7, <2>8, <2>9 DEF Base, Types, ClientTypes, NetworkTypes, EmptyUnlessLoaded,
                                                   QuietUnlessConnected, Connected
<1>8. QED
  BY <1>6, <1>7

\* What Announce sends: the entry to whoever is connected, then the outcome to its sender.
LEMMA Announced ==
  ASSUME Base, persisting # <<>>, Announce
  PROVE  /\ Last(log) \in Entry /\ log # <<>> /\ loaded /\ persisting[1] \in Item /\ OwnItem(persisting[1])
         /\ persisting[1].request = Last(log).request /\ persisting[1].request \in Requests
         /\ Remembered(Last(log)).outcome \in Outcome
         /\ toClient' \in [Clients -> Seq(Frame)]
         /\ \A client \in Clients :
              \/ ~ Connected(client) /\ toClient'[client] = toClient[client]
              \/ /\ Connected(client)
                 /\ toClient'[client] = Append(toClient[client], EntriesFrame(<<Last(log)>>))
              \/ /\ Connected(client)
                 /\ toClient'[client] = Append(Append(toClient[client], EntriesFrame(<<Last(log)>>)),
                                               OutcomeFrame(persisting[1].request,
                                                            Decided(Remembered(Last(log)).outcome)))
<1> DEFINE entry == Last(log)
           item == persisting[1]
           everyone == [client \in Clients |->
                          IF Connected(client) THEN Append(toClient[client], EntriesFrame(<<entry>>))
                          ELSE toClient[client]]
<1>1. toClient' = Answer(everyone, item, Remembered(entry).outcome)
  BY DEF Announce
<1>2. /\ log \in Seq(Entry) /\ log # <<>> /\ persisting \in Seq(Item) /\ item.request = entry.request /\ loaded
      /\ Len(persisting) <= 1 /\ toClient \in [Clients -> Seq(Frame)]
  BY DEF Base, Types, ServerTypes, NetworkTypes, PersistsLast, EmptyUnlessLoaded
<1>3. entry \in Entry
  BY <1>2 DEF Last
<1>4. item \in Item /\ OwnItem(item) /\ item.request \in Requests
  <2>1. item \in Item /\ Range(persisting) = {item}
    BY <1>2, OneElement
  <2>2. QED
    BY <2>1 DEF Base, OwnRequests, Item
<1>5. Remembered(entry).outcome \in Outcome
  BY <1>3 DEF Remembered, Outcome, Entry
<1>6. EntriesFrame(<<entry>>) \in Frame
  BY <1>3 DEF EntriesFrame, Frame
<1> DEFINE news == EntriesFrame(<<entry>>)
<1>7. everyone \in [Clients -> Seq(Frame)]
  <2>1. news \in Frame
    BY <1>6
  <2> HIDE DEF news
  <2>2. \A client \in Clients : Append(toClient[client], news) \in Seq(Frame)
    BY <1>2, <2>1
  <2>3. QED
    BY <1>2, <2>2 DEF news
<1>8. \A client \in Clients :
        everyone[client] = IF Connected(client) THEN Append(toClient[client], news) ELSE toClient[client]
  OBVIOUS
<1> HIDE DEF everyone, entry, item, news
<1>9. /\ Answer(everyone, item, Remembered(entry).outcome) \in [Clients -> Seq(Frame)]
      /\ \A client \in Clients :
           \/ Answer(everyone, item, Remembered(entry).outcome)[client] = everyone[client]
           \/ /\ Connected(client)
              /\ Answer(everyone, item, Remembered(entry).outcome)[client]
                   = Append(everyone[client], OutcomeFrame(item.request, Decided(Remembered(entry).outcome)))
  BY <1>4, <1>5, <1>7, Answered
<1>10. QED
  BY <1>1, <1>2, <1>3, <1>4, <1>5, <1>8, <1>9 DEF entry, item, news

\* An append ends, one way or the other.
LEMMA BaseAppended ==
  ASSUME Base, persisting # <<>>, Announce, persisting' = <<>>,
         file' \in Seq(Entry), retries' \in SUBSET Entry, failures' \in Nat,
         UNCHANGED <<asked, loaded, log, authority, tail, clientVars, toServer, stray, drops, crashes>>
  PROVE  Base'
<1>1. /\ loaded /\ toClient' \in [Clients -> Seq(Frame)]
      /\ \A client \in Clients : ~ Connected(client) => toClient'[client] = toClient[client]
  BY Announced
<1>2. <<>> \in Seq(Item) /\ Len(<<>>) = 0 /\ Range(<<>>) = {}
  BY DEF Range
<1>3. UNCHANGED <<phase, replica, waiting, outcomes>>
  BY DEF clientVars
<1>4. ServerTypes' /\ ClientTypes' /\ NetworkTypes'
  BY <1>1, <1>2, <1>3 DEF Base, Types, ServerTypes, ClientTypes, NetworkTypes
<1>5. QuietUnlessConnected'
  BY <1>1, <1>3 DEF Base, QuietUnlessConnected, Connected
<1>6. OwnRequests'
  BY <1>2, <1>3 DEF Base, OwnRequests, OwnItem, Connected
<1>7. EmptyUnlessLoaded' /\ PersistsLast' /\ FoldsLog'
  BY <1>1 DEF Base, EmptyUnlessLoaded, PersistsLast, FoldsLog
<1>8. QED
  BY <1>4, <1>5, <1>6, <1>7 DEF Base, Types

LEMMA BasePersisted ==
  ASSUME Base, Persisted \/ PersistFails
  PROVE  Base'
<1>1. persisting # <<>> /\ Announce
  BY DEF Persisted, PersistFails
<1>2. Last(log) \in Entry /\ file \in Seq(Entry) /\ retries \in SUBSET Entry /\ failures \in Nat
  BY <1>1, Announced DEF Base, Types, ServerTypes
<1>3. Append(file, Last(log)) \in Seq(Entry)
  BY <1>2
<1>4. file' \in Seq(Entry) /\ retries' \in SUBSET Entry /\ failures' \in Nat
  BY <1>2, <1>3 DEF Persisted, PersistFails, WithOrWithout, Retrying, faultVars
<1>5. QED
  BY <1>1, <1>4, BaseAppended DEF Persisted, PersistFails, faultVars

LEMMA BaseRetry ==
  ASSUME Base, NEW entry \in retries, Retry(entry) \/ RetryFails(entry)
  PROVE  Base'
<1>1. entry \in Entry /\ file \in Seq(Entry) /\ retries \in SUBSET Entry /\ failures \in Nat
  BY DEF Base, Types, ServerTypes
<1>2. Append(file, entry) \in Seq(Entry)
  BY <1>1
<1>3. file' \in Seq(Entry) /\ retries' \in SUBSET Entry /\ failures' \in Nat
  BY <1>1, <1>2 DEF Retry, RetryFails, WithOrWithout, faultVars
<1>4. UNCHANGED <<asked, loaded, log, authority, tail, persisting, phase, replica, waiting, outcomes,
                  toClient, toServer, stray, drops, crashes>>
  BY DEF Retry, RetryFails, clientVars, networkVars, faultVars
<1>5. QED
  BY <1>3, <1>4 DEF Base, Types, ServerTypes, ClientTypes, NetworkTypes, EmptyUnlessLoaded, QuietUnlessConnected,
                    OwnRequests, OwnItem, PersistsLast, FoldsLog, Connected

\* The room is gone: its timer ran out, or the process died.
LEMMA BaseEmptyRoom ==
  ASSUME Base, EmptyRoom, tail' = <<>>, persisting' = <<>>
  PROVE  /\ log' \in Seq(Entry) /\ authority' \in Authority /\ loaded' = FALSE /\ log' = <<>>
         /\ stray' \in [Clients -> Seq(Requests)] /\ (\A client \in Clients : stray'[client] = <<>>)
         /\ FoldsLog' /\ PersistsLast' /\ Range(<<>>) = {}
<1>1. <<>> \in Seq(Entry) /\ <<>> \in Seq(Requests) /\ Range(<<>>) = {}
  BY DEF Range
<1>2. log' = <<>> /\ authority' = AuthorityFromLog(<<>>) /\ loaded' = FALSE
      /\ stray' = [client \in Clients |-> <<>>]
  BY DEF EmptyRoom
<1>3. AuthorityFromLog(<<>>) \in Authority
  BY <1>1, LoadedAuthority
<1>4. FoldsLog'
  BY <1>1, <1>2, LoadedAuthority DEF FoldsLog
<1>5. PersistsLast'
  BY DEF PersistsLast
<1>6. QED
  BY <1>1, <1>2, <1>3, <1>4, <1>5

LEMMA BaseUnload ==
  ASSUME Base, Unload
  PROVE  Base'
<1>1. /\ EmptyRoom /\ tail' = <<>> /\ persisting' = <<>>
      /\ tail = <<>> /\ persisting = <<>> /\ \A client \in Clients : ~ Connected(client)
      /\ UNCHANGED <<asked, file, retries, tail, persisting, phase, replica, waiting, outcomes,
                     toClient, toServer, drops, crashes, failures>>
  BY DEF Unload, clientVars, faultVars
<1>2. /\ log' \in Seq(Entry) /\ authority' \in Authority /\ loaded' = FALSE /\ log' = <<>>
      /\ stray' \in [Clients -> Seq(Requests)] /\ (\A client \in Clients : stray'[client] = <<>>)
      /\ FoldsLog' /\ PersistsLast' /\ Range(<<>>) = {}
  BY <1>1, BaseEmptyRoom
<1>3. ServerTypes' /\ ClientTypes' /\ NetworkTypes'
  BY <1>1, <1>2 DEF Base, Types, ServerTypes, ClientTypes, NetworkTypes
<1>4. EmptyUnlessLoaded' /\ QuietUnlessConnected'
  BY <1>1, <1>2 DEF Base, EmptyUnlessLoaded, QuietUnlessConnected, Connected
<1>5. OwnRequests'
  BY <1>1, <1>2 DEF Base, OwnRequests, OwnItem, Connected
<1>6. QED
  BY <1>1, <1>2, <1>3, <1>4, <1>5 DEF Base, Types

LEMMA BaseCrash ==
  ASSUME Base, Crash
  PROVE  Base'
<1>1. /\ EmptyRoom /\ tail' = <<>> /\ persisting' = <<>> /\ retries' = {} /\ crashes' = crashes + 1
      /\ file' \in IF persisting = <<>> THEN {file} ELSE WithOrWithout(Last(log))
      /\ toClient' = [client \in Clients |-> <<>>] /\ toServer' = [client \in Clients |-> <<>>]
      /\ phase' = [client \in Clients |-> IF phase[client] = "closed" THEN "closed" ELSE "offline"]
      /\ UNCHANGED <<asked, replica, waiting, outcomes, drops, failures>>
  BY DEF Crash
<1>2. /\ log' \in Seq(Entry) /\ authority' \in Authority /\ loaded' = FALSE /\ log' = <<>>
      /\ stray' \in [Clients -> Seq(Requests)] /\ (\A client \in Clients : stray'[client] = <<>>)
      /\ FoldsLog' /\ PersistsLast' /\ Range(<<>>) = {}
  BY <1>1, BaseEmptyRoom
<1>3. file' \in Seq(Entry)
  <2>1. file \in Seq(Entry) /\ log \in Seq(Entry)
    BY DEF Base, Types, ServerTypes
  <2>2. ASSUME persisting # <<>>
        PROVE  Append(file, Last(log)) \in Seq(Entry)
    <3>1. log # <<>>
      BY <2>2 DEF Base, PersistsLast
    <3>2. Last(log) \in Entry
      BY <2>1, <3>1 DEF Last
    <3>3. QED
      BY <2>1, <3>2
  <2>3. QED
    BY <1>1, <2>1, <2>2 DEF WithOrWithout
<1>4. <<>> \in Seq(Item) /\ <<>> \in Seq(Requests) /\ <<>> \in Seq(Frame) /\ Len(<<>>) = 0
  OBVIOUS
<1>a. ServerTypes'
  <2>1. tail' \in Seq(Item) /\ persisting' \in Seq(Item) /\ Len(persisting') <= 1
    BY <1>1, <1>4
  <2>2. retries' \in SUBSET Entry /\ loaded' \in BOOLEAN
    BY <1>1, <1>2
  <2>3. log' \in Seq(Entry) /\ authority' \in Authority
    BY <1>2
  <2>4. QED
    BY <1>3, <2>1, <2>2, <2>3 DEF ServerTypes
<1>b. ClientTypes'
  BY <1>1 DEF Base, Types, ClientTypes
<1>c. NetworkTypes'
  BY <1>1, <1>2, <1>4 DEF NetworkTypes
<1>5. ServerTypes' /\ ClientTypes' /\ NetworkTypes'
  BY <1>a, <1>b, <1>c
<1>6. EmptyUnlessLoaded' /\ QuietUnlessConnected'
  BY <1>1, <1>2 DEF EmptyUnlessLoaded, QuietUnlessConnected, Connected
<1>7. OwnRequests'
  BY <1>1, <1>2 DEF Base, OwnRequests
<1>8. crashes' \in Nat
  BY <1>1 DEF Base, Types
<1>9. QED
  BY <1>1, <1>2, <1>5, <1>6, <1>7, <1>8 DEF Base, Types

LEMMA BaseStutters ==
  ASSUME Base, UNCHANGED vars
  PROVE  Base'
BY DEF Base, Types, ServerTypes, ClientTypes, NetworkTypes, EmptyUnlessLoaded, QuietUnlessConnected, Connected,
       OwnRequests, OwnItem, PersistsLast, FoldsLog, vars, serverVars, clientVars, networkVars, faultVars

LEMMA BaseNext ==
  ASSUME Base, [Next]_vars
  PROVE  Base'
<1>1. ASSUME NEW client \in Clients, ClientNext(client)
      PROVE  Base'
  BY <1>1, BaseSubmit, BaseWelcomeArrives, BaseEntriesArrive, BaseOutcomeArrives, BaseConnect, BaseDrop, BaseStop
     DEF ClientNext
<1>2. ASSUME RoomNext
      PROVE  Base'
  BY <1>2, BaseArrives, BaseStrayArrives, BaseRefusedAtRate, BaseDecideNext, BasePersisted, BaseRetry, BaseUnload,
     BaseCrash DEF RoomNext
<1>3. QED
  BY <1>1, <1>2, BaseStutters DEF Next

\* The types, and the running total of body bytes, whatever fails.
THEOREM BaseAlways == Spec => []Base
<1>1. Init => Base
  BY BaseInit
<1>2. Base /\ [Next]_vars => Base'
  BY BaseNext
<1>3. QED
  BY <1>1, <1>2, PTL DEF Spec

\* The running total of body bytes is that of the messages there are, whatever fails:
\* edits, deletions and loads keep it (BytesMatch).
THEOREM BytesAreThoseOfTheMessages == Spec => []BytesMatch
<1>1. Base => BytesMatch
  BY DEF Base, FoldsLog, BytesMatch
<1>2. QED
  BY <1>1, BaseAlways, PTL

-----------------------------------------------------------------------------
\* The log while no append failed.

\* Entries are numbered in their order, the fold skips none of them, and what it
\* makes of them keeps the deck's budget.
SoundAt(entries, n) ==
  /\ entries[n].sequence = n
  /\ ~ Refused(Fold(SubSeq(entries, 1, n - 1)).threads, entries[n].command, entries[n].actor, TRUE)
  /\ BytesOf(Fold(SubSeq(entries, 1, n)).threads) <= MaxBytes

Sound(entries) == \A n \in 1 .. Len(entries) : SoundAt(entries, n)

\* The room's log is the file, but for the entry that is being appended.
FileFollows ==
  /\ retries = {}
  /\ loaded => log = IF persisting = <<>> THEN file ELSE Append(file, Last(log))

Smooth == failures = 0 => FileFollows /\ Sound(log) /\ Sound(file)


\* What adds no body does not make the bytes grow.
LEMMA OnlyBodiesGrow ==
  ASSUME NEW threads \in SomeThreads, NEW command \in Commands
  PROVE  /\ BytesDelta(threads, command) \in Int
         /\ BytesDelta(threads, command) > 0 => command.kind \in {"createThread", "reply", "editMessage"}
<1>0. threads \in [DOMAIN threads -> Thread]
  BY WithoutThread
<1>1. ASSUME HasMessage(threads, command), command.kind \in {"editMessage", "deleteMessage"}
      PROVE  MessageOf(threads, command).body \in Nat
  <2>1. threads[command.thread] \in Thread /\ command.message \in DOMAIN threads[command.thread].messages
    BY <1>0, <1>1 DEF HasMessage, HasThread
  <2>2. threads[command.thread].messages \in [DOMAIN threads[command.thread].messages -> Message]
    BY <2>1 DEF Thread, SomeMessages
  <2>3. QED
    BY <2>1, <2>2 DEF MessageOf, Message
<1>2. ASSUME command.kind = "deleteThread", HasThread(threads, command)
      PROVE  BytesOfThread(threads[command.thread]) \in Nat
  BY <1>2, BytesOfAll DEF HasThread
<1>3. /\ command.kind \in {"createThread", "reply", "editMessage", "deleteMessage",
                           "resolveThread", "reopenThread", "deleteThread"}
      /\ command.kind \in {"createThread", "reply", "editMessage"} => command.body \in Nat
  BY CommandParts
<1>4. CASE command.kind \notin {"createThread", "reply", "editMessage"}
  <2>1. \/ BytesDelta(threads, command) = 0
        \/ command.kind = "deleteMessage" /\ HasMessage(threads, command)
           /\ BytesDelta(threads, command) = -MessageOf(threads, command).body
        \/ command.kind = "deleteThread" /\ HasThread(threads, command)
           /\ BytesDelta(threads, command) = -BytesOfThread(threads[command.thread])
    BY <1>3, <1>4 DEF BytesDelta
  <2>2. QED
    BY <1>1, <1>2, <2>1
<1>5. CASE command.kind \in {"createThread", "reply"}
  BY <1>3, <1>5 DEF BytesDelta
<1>6. CASE command.kind = "editMessage"
  BY <1>1, <1>3, <1>6 DEF BytesDelta
<1>7. QED
  BY <1>4, <1>5, <1>6

\* What the authority lets in keeps the budget.
LEMMA BudgetKept ==
  ASSUME NEW state \in Authority, state.bytes = BytesOf(state.snapshot.threads), state.bytes <= MaxBytes,
         NEW entry \in Entry, NEW role, ~ AuthorityRefuses(state, entry.command, entry.actor, role)
  PROVE  BytesOf(Reduce(state.snapshot, entry).threads) <= MaxBytes
<1> DEFINE threads == state.snapshot.threads
           growth == BytesDelta(threads, entry.command)
           new == ApplyEntry(threads, entry)
<1>1. threads \in SomeThreads /\ entry.command \in Commands /\ entry.actor \in People /\ state.bytes \in Nat
  BY DEF Authority, Snapshot, Entry
<1>2. ~ Refused(threads, entry.command, entry.actor, TRUE)
  BY <1>1, AllowedIsApplied
<1>3. new \in SomeThreads /\ BytesOf(new) = state.bytes + growth
  BY <1>1, <1>2, BytesOfApplied
<1>4. BytesOf(new) \in Nat /\ MaxBytes \in Nat
  BY <1>3, BytesOfAll, DiscussionLimitsAssumption
<1>5. growth > 0 => state.bytes + growth <= MaxBytes
  <2>1. ASSUME growth > 0
        PROVE  ~ (state.bytes + growth > MaxBytes)
    <3>1. entry.command.kind \in {"createThread", "reply", "editMessage"}
      BY <1>1, <2>1, OnlyBodiesGrow
    <3>2. ~ OverLimit(state, entry.command)
      BY DEF AuthorityRefuses
    <3>3. QED
      BY <2>1, <3>1, <3>2 DEF OverLimit
  <2>2. growth \in Int
    BY <1>1, OnlyBodiesGrow
  <2> HIDE DEF growth
  <2>3. QED
    BY <1>1, <1>4, <2>1, <2>2
<1>6. Reduce(state.snapshot, entry).threads = new
  BY DEF Reduce
<1> HIDE DEF growth, new
<1>7. BytesOf(new) <= MaxBytes
  <2>1. CASE growth > 0
    BY <1>3, <1>5, <2>1
  <2>2. CASE ~ growth > 0
    <3>1. growth \in Int
      BY <1>1, OnlyBodiesGrow DEF growth
    <3>2. QED
      BY <1>1, <1>3, <1>4, <2>2, <3>1
  <2>3. QED
    BY <2>1, <2>2
<1>8. QED
  BY <1>6, <1>7


LEMMA SoundNothing == Sound(<<>>)
BY DEF Sound

LEMMA SoundAppend ==
  ASSUME NEW entries \in Seq(Entry), Sound(entries), NEW entry \in Entry, entry.sequence = Len(entries) + 1,
         ~ Refused(Fold(entries).threads, entry.command, entry.actor, TRUE),
         BytesOf(Reduce(Fold(entries), entry).threads) <= MaxBytes
  PROVE  Sound(Append(entries, entry))
<1> DEFINE longer == Append(entries, entry)
           m == Len(entries)
<1>1. /\ m \in Nat /\ longer \in Seq(Entry) /\ Len(longer) = m + 1 /\ longer[m + 1] = entry
      /\ \A i \in 1 .. m : longer[i] = entries[i]
  OBVIOUS
<1>2. \A n \in 0 .. m : SubSeq(longer, 1, n) = SubSeq(entries, 1, n)
  BY PrefixOfAppend
<1>3. SubSeq(entries, 1, m) = entries /\ SubSeq(longer, 1, m + 1) = longer
  <2>1. m \in 0 .. Len(entries) /\ m + 1 \in 0 .. Len(longer)
    BY <1>1
  <2>2. QED
    BY <1>1, <2>1, PrefixFacts
<1>4. Fold(longer) = Reduce(Fold(entries), entry)
  BY FoldOfAppend
<1> HIDE DEF longer, m
<1>5. ASSUME NEW n \in 1 .. m
      PROVE  SoundAt(longer, n)
  <2>1. SoundAt(entries, n) /\ n \in 0 .. m /\ n - 1 \in 0 .. m
    BY <1>1 DEF Sound, m
  <2>2. QED
    BY <1>1, <1>2, <2>1 DEF SoundAt
<1>6. SoundAt(longer, m + 1)
  <2>1. (m + 1) - 1 = m /\ m \in 0 .. m
    BY <1>1
  <2>2. SubSeq(longer, 1, (m + 1) - 1) = entries
    BY <1>2, <1>3, <2>1
  <2>3. entry.sequence = m + 1
    BY DEF m
  <2>4. QED
    BY <1>1, <1>3, <1>4, <2>2, <2>3 DEF SoundAt
<1>7. \A n \in 1 .. m + 1 : n \in 1 .. m \/ n = m + 1
  BY <1>1
<1>8. Sound(longer)
  BY <1>1, <1>5, <1>6, <1>7 DEF Sound
<1>9. QED
  BY <1>8 DEF longer

\* The number of a sound log's last entry is its length, and its bytes keep the budget.
LEMMA SoundFold ==
  ASSUME NEW entries \in Seq(Entry), Sound(entries)
  PROVE  /\ Fold(entries).sequence = Len(entries)
         /\ BytesOf(Fold(entries).threads) <= MaxBytes
         /\ \A n \in 0 .. Len(entries) : Fold(SubSeq(entries, 1, n)).sequence = n
<1>1. ASSUME NEW n \in 0 .. Len(entries)
      PROVE  Fold(SubSeq(entries, 1, n)).sequence = n
  <2>1. CASE n = 0
    <3>1. SubSeq(entries, 1, n) = <<>>
      BY <2>1, PrefixFacts
    <3>2. Fold(SubSeq(entries, 1, n)) = EmptyDiscussion
      BY <3>1, FoldOfNothing
    <3>3. QED
      BY <2>1, <3>2 DEF EmptyDiscussion
  <2>2. CASE n # 0
    <3>1. n - 1 \in Nat /\ n - 1 < Len(entries) /\ (n - 1) + 1 = n /\ n \in 1 .. Len(entries)
      BY <2>2
    <3>2. Fold(SubSeq(entries, 1, n)) = Reduce(Fold(SubSeq(entries, 1, n - 1)), entries[n])
      BY <3>1, FoldOfPrefix
    <3>3. entries[n].sequence = n
      BY <3>1 DEF Sound, SoundAt
    <3>4. QED
      BY <3>2, <3>3 DEF Reduce
  <2>3. QED
    BY <2>1, <2>2
<1>2. Len(entries) \in 0 .. Len(entries) /\ SubSeq(entries, 1, Len(entries)) = entries
  <2>1. Len(entries) \in 0 .. Len(entries)
    OBVIOUS
  <2>2. QED
    BY <2>1, PrefixFacts
<1>3. BytesOf(Fold(entries).threads) <= MaxBytes
  <2>1. CASE Len(entries) = 0
    <3>1. entries = <<>>
      BY <2>1
    <3>2. BytesOf(Fold(entries).threads) = 0
      BY <3>1, FoldOfNothing, BytesOfAll, EmptyType DEF EmptyDiscussion, Snapshot
    <3>3. QED
      BY <3>2, DiscussionLimitsAssumption
  <2>2. CASE Len(entries) # 0
    <3>1. Len(entries) \in 1 .. Len(entries)
      BY <2>2
    <3>2. QED
      BY <1>2, <3>1 DEF Sound, SoundAt
  <2>3. QED
    BY <2>1, <2>2
<1>4. QED
  BY <1>1, <1>2, <1>3

\* What DecideNext does, by what the authority answers.
AnswersBefore(item) ==
  /\ \E past \in Range(authority.remembered) :
       /\ past.person = PersonOf[item.client] /\ past.outcome.request = item.request
       /\ toClient' = Answer(toClient, item, past.outcome)
  /\ UNCHANGED <<log, authority, persisting>>

NotAnswered(item) ==
  \A past \in Range(authority.remembered) :
    ~ (past.person = PersonOf[item.client] /\ past.outcome.request = item.request)

AnswersAgainst(item) ==
  /\ NotAnswered(item)
  /\ toClient' = Answer(toClient, item, Rejected(item.request))
  /\ authority'.remembered = Memory(authority, PersonOf[item.client], Rejected(item.request))
  /\ UNCHANGED <<log, persisting>>

Enters(item, entry) ==
  /\ NotAnswered(item)
  /\ entry \in Entry /\ entry.request = item.request /\ entry.actor = PersonOf[item.client]
  /\ entry.sequence = authority.snapshot.sequence + 1
  /\ ~ AuthorityRefuses(authority, entry.command, entry.actor, RoleOfClient[item.client])
  /\ log' = Append(log, entry) /\ Last(log') = entry
  /\ authority'.remembered = Memory(authority, entry.actor, Remembered(entry).outcome)
  /\ persisting' = <<item>>
  /\ UNCHANGED toClient

LEMMA DecideNextCases ==
  ASSUME Base, DecideNext
  PROVE  /\ tail # <<>> /\ persisting = <<>> /\ tail' = Tail(tail)
         /\ UNCHANGED <<asked, file, retries, loaded, phase, replica, waiting, outcomes, toServer, stray,
                        drops, crashes, failures>>
         /\ \/ AnswersBefore(Head(tail))
            \/ AnswersAgainst(Head(tail))
            \/ \E entry \in Entry : Enters(Head(tail), entry)
<1> DEFINE item == Head(tail)
           actor == PersonOf[item.client]
           decision == Decision(item)
<1>1. /\ tail # <<>> /\ persisting = <<>>
      /\ authority' = decision.state /\ log' = log \o decision.entries
      /\ IF decision.entries = <<>>
         THEN toClient' = Answer(toClient, item, decision.outcome) /\ persisting' = persisting
         ELSE persisting' = <<item>> /\ toClient' = toClient
      /\ tail' = Tail(tail)
      /\ UNCHANGED <<asked, file, retries, loaded, phase, replica, waiting, outcomes, toServer, stray,
                     drops, crashes, failures>>
  BY DEF DecideNext, Decision, clientVars, faultVars
<1>2. /\ item.request \in Requests /\ asked[item.request] \in Commands /\ actor \in People
  BY <1>1, FirstItem
<1>3. authority \in Authority /\ authority.bytes = BytesOf(authority.snapshot.threads) /\ log \in Seq(Entry)
  BY DEF Base, Types, ServerTypes, FoldsLog
<1>4. \/ DecidedBefore(decision, authority, item.request, actor)
      \/ DecidedAgainst(decision, authority, item.request, actor)
      \/ DecidedFor(decision, authority, item.request, asked[item.request], actor, RoleOfClient[item.client])
  BY <1>2, <1>3, Decisions DEF Decision
<1>5. decision.entries = <<>> \/ \E entry \in Entry : decision.entries = <<entry>>
  BY <1>2, <1>3, DecisionType DEF Decision
<1>6. log \o <<>> = log
  BY <1>3
<1> HIDE DEF decision, item, actor
<1>7. CASE DecidedBefore(decision, authority, item.request, actor)
  <2>1. PICK past \in Range(authority.remembered) :
          past.person = actor /\ past.outcome.request = item.request /\ decision.outcome = past.outcome
    BY <1>7 DEF DecidedBefore
  <2>2. decision.entries = <<>> /\ decision.state = authority
    BY <1>7 DEF DecidedBefore
  <2>3. AnswersBefore(item)
    BY <1>1, <1>6, <2>1, <2>2 DEF AnswersBefore, actor
  <2>4. QED
    BY <1>1, <2>3 DEF item
<1>8. CASE DecidedAgainst(decision, authority, item.request, actor)
  <2>1. /\ NotAnswered(item) /\ decision.outcome = Rejected(item.request) /\ decision.entries = <<>>
        /\ decision.state.remembered = Memory(authority, actor, Rejected(item.request))
    BY <1>8 DEF DecidedAgainst, NotAnswered, actor
  <2>2. AnswersAgainst(item)
    BY <1>1, <1>6, <2>1 DEF AnswersAgainst, actor
  <2>3. QED
    BY <1>1, <2>2 DEF item
<1>9. CASE DecidedFor(decision, authority, item.request, asked[item.request], actor, RoleOfClient[item.client])
  <2> DEFINE entry == NextEntry(authority, item.request, asked[item.request], actor)
  <2>1. /\ NotAnswered(item) /\ decision.entries = <<entry>>
        /\ ~ AuthorityRefuses(authority, asked[item.request], actor, RoleOfClient[item.client])
        /\ decision.state.remembered = Memory(authority, actor, Remembered(entry).outcome)
    BY <1>9 DEF DecidedFor, NotAnswered, actor
  <2>2. /\ entry.request = item.request /\ entry.actor = actor /\ entry.command = asked[item.request]
        /\ entry.sequence = authority.snapshot.sequence + 1
    BY DEF NextEntry
  <2>3. entry \in Entry /\ <<entry>> # <<>>
    BY <1>5, <2>1
  <2> HIDE DEF entry
  <2>4. log' = Append(log, entry)
    <3>1. log \o <<entry>> = Append(log, entry)
      BY <1>3, <2>3
    <3>2. QED
      BY <1>1, <2>1, <3>1
  <2>5. Last(Append(log, entry)) = entry
    BY <1>3, <2>3 DEF Last
  <2>6. persisting' = <<item>> /\ toClient' = toClient /\ authority'.remembered = decision.state.remembered
    BY <1>1, <2>1, <2>3
  <2>7. Enters(item, entry)
    BY <2>1, <2>2, <2>3, <2>4, <2>5, <2>6 DEF Enters, actor
  <2>8. QED
    BY <1>1, <2>3, <2>7 DEF item
<1>10. QED
  BY <1>4, <1>7, <1>8, <1>9

\* Steps that touch neither the log nor the file.
LEMMA SmoothUntouched ==
  ASSUME Base, Smooth, UNCHANGED <<file, retries, loaded, log>>, persisting' = <<>> <=> persisting = <<>>,
         failures' = 0 => failures = 0
  PROVE  Smooth'
BY DEF Smooth, FileFollows

\* An entry that the room lets into its log.
LEMMA SoundEnters ==
  ASSUME Base, Sound(log), NEW item, NEW entry, Enters(item, entry)
  PROVE  Sound(log')
<1>1. /\ authority \in Authority /\ log \in Seq(Entry) /\ authority.snapshot = Fold(log)
      /\ authority.bytes = BytesOf(authority.snapshot.threads)
  BY DEF Base, Types, ServerTypes, FoldsLog
<1>2. /\ entry \in Entry /\ log' = Append(log, entry) /\ entry.sequence = authority.snapshot.sequence + 1
      /\ ~ AuthorityRefuses(authority, entry.command, entry.actor, RoleOfClient[item.client])
  BY DEF Enters
<1>3. Fold(log).sequence = Len(log) /\ BytesOf(Fold(log).threads) <= MaxBytes
  BY <1>1, SoundFold
<1>4. entry.command \in Commands
  BY <1>2 DEF Entry
<1>5. ~ Refused(authority.snapshot.threads, entry.command, entry.actor, TRUE)
  BY <1>2, <1>4, AllowedIsApplied
<1>6. BytesOf(Reduce(authority.snapshot, entry).threads) <= MaxBytes
  BY <1>1, <1>2, <1>3, BudgetKept
<1>7. QED
  BY <1>1, <1>2, <1>3, <1>5, <1>6, SoundAppend

LEMMA SmoothInit ==
  ASSUME Init
  PROVE  Smooth
BY SoundNothing DEF Init, Smooth, FileFollows

LEMMA SmoothNext ==
  ASSUME Base, Smooth, [Next]_vars
  PROVE  Smooth'
<1>0. failures \in Nat /\ persisting \in Seq(Item) /\ log \in Seq(Entry) /\ file \in Seq(Entry)
  BY DEF Base, Types, ServerTypes
<1>1. ASSUME NEW client \in Clients, ClientNext(client)
      PROVE  Smooth'
  <2>1. ASSUME NEW request \in Requests, Submit(client, request)
        PROVE  Smooth'
    BY <2>1, SmoothUntouched DEF Submit, serverVars, faultVars
  <2>2. ASSUME WelcomeArrives(client)
        PROVE  Smooth'
    BY <2>2, SmoothUntouched DEF WelcomeArrives, serverVars, faultVars
  <2>3. ASSUME EntriesArrive(client)
        PROVE  Smooth'
    BY <2>3, SmoothUntouched DEF EntriesArrive, serverVars, faultVars
  <2>4. ASSUME OutcomeArrives(client)
        PROVE  Smooth'
    BY <2>4, SmoothUntouched DEF OutcomeArrives, serverVars, faultVars
  <2>5. ASSUME Connect(client)
        PROVE  Smooth'
    <3>1. /\ loaded' = TRUE /\ log' = (IF loaded THEN log ELSE file)
          /\ UNCHANGED <<file, retries, persisting, failures>>
      BY <2>5 DEF Connect, faultVars
    <3>2. ~ loaded => persisting = <<>>
      BY DEF Base, EmptyUnlessLoaded
    <3>3. QED
      BY <3>1, <3>2 DEF Smooth, FileFollows
  <2>6. ASSUME Drop(client) \/ Stop(client)
        PROVE  Smooth'
    <3>1. persisting' = Unheard(persisting, client) /\ UNCHANGED <<file, retries, loaded, log, failures>>
      BY <2>6 DEF Drop, Stop, Lose, faultVars
    <3>2. persisting' = <<>> <=> persisting = <<>>
      BY <1>0, <3>1, UnheardItems
    <3>3. QED
      BY <3>1, <3>2, SmoothUntouched
  <2>7. QED
    BY <1>1, <2>1, <2>2, <2>3, <2>4, <2>5, <2>6 DEF ClientNext
<1>2. ASSUME RoomNext
      PROVE  Smooth'
  <2>1. ASSUME NEW client \in Clients, Arrives(client) \/ StrayArrives(client) \/ RefusedAtRate(client)
        PROVE  Smooth'
    BY <2>1, SmoothUntouched DEF Arrives, StrayArrives, RefusedAtRate, serverVars, faultVars
  <2>2. ASSUME DecideNext
        PROVE  Smooth'
    <3>1. persisting = <<>> /\ UNCHANGED <<file, retries, loaded, failures>>
      BY <2>2, DecideNextCases
    <3>2. CASE AnswersBefore(Head(tail)) \/ AnswersAgainst(Head(tail))
      BY <3>1, <3>2, SmoothUntouched DEF AnswersBefore, AnswersAgainst
    <3>3. ASSUME NEW entry \in Entry, Enters(Head(tail), entry), failures = 0
          PROVE  FileFollows' /\ Sound(log') /\ Sound(file')
      <4>1. FileFollows /\ Sound(log) /\ Sound(file)
        BY <3>3 DEF Smooth
      <4>2. Sound(log')
        BY <3>3, <4>1, SoundEnters
      <4>3. log' = Append(log, entry) /\ Last(log') = entry /\ persisting' = <<Head(tail)>>
        BY <3>3 DEF Enters
      <4>a. <<Head(tail)>> # <<>>
        OBVIOUS
      <4>4. FileFollows'
        BY <3>1, <4>1, <4>3, <4>a DEF FileFollows
      <4>5. QED
        BY <3>1, <4>1, <4>2, <4>4
    <3>4. QED
      BY <2>2, <3>1, <3>2, <3>3, DecideNextCases DEF Smooth
  <2>3. ASSUME Persisted
        PROVE  Smooth'
    <3>1. /\ persisting # <<>> /\ file' = Append(file, Last(log)) /\ persisting' = <<>>
          /\ UNCHANGED <<retries, loaded, log, failures>>
      BY <2>3 DEF Persisted, faultVars
    <3>2. loaded
      BY <3>1 DEF Base, EmptyUnlessLoaded
    <3>3. QED
      BY <3>1, <3>2 DEF Smooth, FileFollows
  <2>4. ASSUME PersistFails
        PROVE  Smooth'
    BY <1>0, <2>4 DEF PersistFails, Smooth
  <2>5. ASSUME NEW entry \in retries, Retry(entry)
        PROVE  Smooth'
    BY <2>5 DEF Retry, Smooth, FileFollows, faultVars
  <2>6. ASSUME NEW entry \in retries, RetryFails(entry)
        PROVE  Smooth'
    BY <1>0, <2>6 DEF RetryFails, Smooth
  <2>7. ASSUME Unload
        PROVE  Smooth'
    <3>1. loaded' = FALSE /\ log' = <<>> /\ UNCHANGED <<file, retries, failures>>
      BY <2>7 DEF Unload, EmptyRoom, faultVars
    <3>2. QED
      BY <3>1, SoundNothing DEF Smooth, FileFollows
  <2>8. ASSUME Crash
        PROVE  Smooth'
    <3>1. /\ loaded' = FALSE /\ log' = <<>> /\ retries' = {} /\ UNCHANGED failures
          /\ file' \in IF persisting = <<>> THEN {file} ELSE WithOrWithout(Last(log))
      BY <2>8 DEF Crash, EmptyRoom
    <3>2. persisting # <<>> => loaded
      BY DEF Base, EmptyUnlessLoaded
    <3>3. failures = 0 => file' = file \/ file' = log
      BY <3>1, <3>2 DEF Smooth, FileFollows, WithOrWithout
    <3>4. QED
      BY <3>1, <3>3, SoundNothing DEF Smooth, FileFollows
  <2>9. QED
    BY <1>2, <2>1, <2>2, <2>3, <2>4, <2>5, <2>6, <2>7, <2>8 DEF RoomNext
<1>3. ASSUME UNCHANGED vars
      PROVE  Smooth'
  BY <1>3, SmoothUntouched DEF vars, serverVars, faultVars
<1>4. QED
  BY <1>1, <1>2, <1>3 DEF Next

\* While no append failed, the file is the room's log but for the entry under way, and
\* neither has a gap or an entry that the fold skips.
THEOREM SmoothAlways == Spec => []Smooth
<1>1. Init => Smooth
  BY SmoothInit
<1>2. Base /\ Smooth /\ [Next]_vars => Smooth'
  BY SmoothNext
<1>3. QED
  BY <1>1, <1>2, BaseAlways, PTL DEF Spec

\* While no append failed, the fold skips no entry that the authority let into the log
\* (NothingSkipped): the authority and every replica agree on what each entry does.
THEOREM FoldSkipsNothing == Spec => []NothingSkipped
<1>1. Base /\ Smooth => NothingSkipped
  <2>1. ASSUME Base, Smooth, failures = 0, NEW i \in DOMAIN log
        PROVE  ~ Refused(Fold(SubSeq(log, 1, i - 1)).threads, log[i].command, log[i].actor, TRUE)
    <3>1. i \in 1 .. Len(log) /\ Sound(log)
      BY <2>1 DEF Base, Types, ServerTypes, Smooth
    <3>2. QED
      BY <3>1 DEF Sound, SoundAt
  <2>2. QED
    BY <2>1 DEF NothingSkipped
<1>2. QED
  BY <1>1, BaseAlways, SmoothAlways, PTL

\* The types; while no append failed the bodies of a deck keep its budget, and what is
\* remembered is never longer than it may be (TypeOK).
THEOREM TypesAndLimits == Spec => []TypeOK
<1>1. Base /\ Smooth => TypeOK
  <2>1. ASSUME Base
        PROVE  /\ asked \in Scripts /\ loaded \in BOOLEAN
               /\ phase \in [Clients -> {"offline", "joining", "online", "closed"}]
               /\ Len(persisting) <= 1 /\ authority.bytes \in Nat
               /\ Len(authority.remembered) <= MaxRemembered
    BY <2>1 DEF Base, Types, ServerTypes, ClientTypes, FoldsLog, Authority
  <2>2. ASSUME Base
        PROVE  /\ \A request \in Requests : outcomes[request].kind \in {"none", "rateLimited", "stopped", "decided"}
               /\ \A client \in Clients : Range(waiting[client]) \subseteq Requests /\ replica[client].sequence \in Nat
    <3>1. ASSUME NEW request \in Requests
          PROVE  outcomes[request].kind \in {"none", "rateLimited", "stopped", "decided"}
      <4>1. outcomes[request] \in {Unanswered} \cup Told
        BY <2>2 DEF Base, Types, ClientTypes
      <4>2. QED
        BY <4>1 DEF Told, Unanswered, RateLimited, Stopped
    <3>2. ASSUME NEW client \in Clients
          PROVE  Range(waiting[client]) \subseteq Requests /\ replica[client].sequence \in Nat
      <4>1. waiting[client] \in Seq(Requests) /\ replica[client] \in Snapshot
        BY <2>2 DEF Base, Types, ClientTypes
      <4>2. QED
        BY <4>1, RangeIsIn DEF Snapshot
    <3>3. QED
      BY <3>1, <3>2
  <2>3. ASSUME Base, Smooth, failures = 0
        PROVE  authority.bytes <= MaxBytes
    <3>1. /\ log \in Seq(Entry) /\ Sound(log) /\ authority.snapshot = Fold(log)
          /\ authority.bytes = BytesOf(authority.snapshot.threads)
      BY <2>3 DEF Base, Types, ServerTypes, FoldsLog, Smooth
    <3>2. QED
      BY <3>1, SoundFold
  <2>4. QED
    BY <2>1, <2>2, <2>3 DEF TypeOK
<1>2. QED
  BY <1>1, BaseAlways, SmoothAlways, PTL

-----------------------------------------------------------------------------
\* Answers and the entries they promise.

StoredIn(entries, outcome) ==
  \E entry \in entries : entry.request = outcome.request /\ entry.sequence = outcome.sequence

\* What is on disk or in a timer, and what is being appended.
Lines == Range(file) \cup retries

BeingAppended == IF persisting = <<>> THEN {} ELSE {Last(log)}

SaysApplied(told) == told.kind = "decided" /\ told.outcome.applied

Promises(frame) == frame.kind = "outcome" /\ SaysApplied(frame.told)

\* Who was told "applied", who is about to be and who would be again has the entry.
AnswersStored ==
  /\ \A request \in Requests : SaysApplied(outcomes[request]) => StoredIn(Lines, outcomes[request].outcome)
  /\ \A client \in Clients : \A frame \in Range(toClient[client]) :
       Promises(frame) => StoredIn(Lines, frame.told.outcome)
  /\ \A past \in Range(authority.remembered) :
       past.outcome.applied => StoredIn(Lines \cup BeingAppended, past.outcome)

Promised == crashes = 0 \/ failures = 0 => AnswersStored

LEMMA MoreIsStored ==
  ASSUME NEW some, NEW more, some \subseteq more, NEW outcome, StoredIn(some, outcome)
  PROVE  StoredIn(more, outcome)
BY DEF StoredIn

LEMMA AnswersStay ==
  ASSUME AnswersStored, Lines \subseteq Lines', Lines \cup BeingAppended \subseteq Lines' \cup BeingAppended',
         \A request \in Requests :
           SaysApplied(outcomes'[request]) =>
             outcomes'[request] = outcomes[request] \/ StoredIn(Lines', outcomes'[request].outcome),
         \A client \in Clients : \A frame \in Range(toClient'[client]) :
           Promises(frame) => frame \in Range(toClient[client]) \/ StoredIn(Lines', frame.told.outcome),
         \A past \in Range(authority'.remembered) :
           past.outcome.applied =>
             past \in Range(authority.remembered) \/ StoredIn(Lines' \cup BeingAppended', past.outcome)
  PROVE  AnswersStored'
<1>1. \A request \in Requests : SaysApplied(outcomes'[request]) => StoredIn(Lines', outcomes'[request].outcome)
  <2>1. ASSUME NEW request \in Requests, SaysApplied(outcomes'[request])
        PROVE  StoredIn(Lines', outcomes'[request].outcome)
    <3>1. CASE outcomes'[request] = outcomes[request]
      <4>1. StoredIn(Lines, outcomes[request].outcome)
        BY <2>1, <3>1 DEF AnswersStored
      <4>2. QED
        BY <3>1, <4>1, MoreIsStored
    <3>2. QED
      BY <2>1, <3>1
  <2>2. QED
    BY <2>1
<1>2. \A client \in Clients : \A frame \in Range(toClient'[client]) :
        Promises(frame) => StoredIn(Lines', frame.told.outcome)
  <2>1. ASSUME NEW client \in Clients, NEW frame \in Range(toClient'[client]), Promises(frame),
               frame \in Range(toClient[client])
        PROVE  StoredIn(Lines', frame.told.outcome)
    <3>1. StoredIn(Lines, frame.told.outcome)
      BY <2>1 DEF AnswersStored
    <3>2. QED
      BY <3>1, MoreIsStored
  <2>2. QED
    BY <2>1
<1>3. \A past \in Range(authority'.remembered) :
        past.outcome.applied => StoredIn(Lines' \cup BeingAppended', past.outcome)
  <2>1. ASSUME NEW past \in Range(authority'.remembered), past.outcome.applied, past \in Range(authority.remembered)
        PROVE  StoredIn(Lines' \cup BeingAppended', past.outcome)
    <3>1. StoredIn(Lines \cup BeingAppended, past.outcome)
      BY <2>1 DEF AnswersStored
    <3>2. QED
      BY <3>1, MoreIsStored
  <2>2. QED
    BY <2>1
<1>4. QED
  BY <1>1, <1>2, <1>3 DEF AnswersStored

\* The memory of a room gains the outcome of the request that is decided.
LEMMA MemoryGains ==
  ASSUME NEW state, state.remembered \in Seq(Past), NEW actor \in People, NEW outcome \in Outcome
  PROVE  \A past \in Range(Memory(state, actor, outcome)) :
           past \in Range(state.remembered) \/ past = [person |-> actor, outcome |-> outcome]
<1> DEFINE new == [person |-> actor, outcome |-> outcome]
           longer == Append(state.remembered, new)
<1>1. new \in Past
  BY DEF Past
<1> HIDE DEF new
<1>2. longer \in Seq(Past) /\ Range(longer) = Range(state.remembered) \cup {new}
  BY <1>1, RangeOfAppend
<1>3. Memory(state, actor, outcome) = LastOf(MaxRemembered, longer)
  BY DEF Memory, new
<1> HIDE DEF longer
<1>4. MaxRemembered \in Nat \ {0}
  BY DiscussionLimitsAssumption
<1>5. \A i \in DOMAIN LastOf(MaxRemembered, longer) : \E j \in DOMAIN longer : LastOf(MaxRemembered, longer)[i] = longer[j]
  BY <1>2, <1>4, LastOfSome
<1>6. \A past \in Range(LastOf(MaxRemembered, longer)) : past \in Range(longer)
  BY <1>5 DEF Range
<1>7. QED
  BY <1>2, <1>3, <1>6 DEF new

\* Steps that write nothing: nobody is told, and nothing new remembered.
LEMMA PromisedUntouched ==
  ASSUME Promised, UNCHANGED <<file, retries, log, authority>>, persisting' = <<>> <=> persisting = <<>>,
         crashes' = 0 => crashes = 0, failures' = 0 => failures = 0,
         \A request \in Requests :
           \/ outcomes'[request] = outcomes[request]
           \/ ~ SaysApplied(outcomes'[request])
           \/ \E client \in Clients : \E frame \in Range(toClient[client]) :
                frame.kind = "outcome" /\ outcomes'[request] = frame.told,
         \A client \in Clients : \A frame \in Range(toClient'[client]) :
           frame \in Range(toClient[client]) \/ ~ Promises(frame)
  PROVE  Promised'
<1>1. SUFFICES ASSUME AnswersStored
               PROVE  AnswersStored'
  BY DEF Promised
<1>2. Lines' = Lines /\ BeingAppended' = BeingAppended
  BY DEF Lines, BeingAppended
<1>3. ASSUME NEW request \in Requests, SaysApplied(outcomes'[request]),
             NEW client \in Clients, NEW frame \in Range(toClient[client]),
             frame.kind = "outcome", outcomes'[request] = frame.told
      PROVE  StoredIn(Lines', outcomes'[request].outcome)
  <2>1. Promises(frame)
    BY <1>3 DEF Promises
  <2>2. StoredIn(Lines, frame.told.outcome)
    BY <1>1, <1>3, <2>1 DEF AnswersStored
  <2>3. QED
    BY <1>2, <1>3, <2>2
<1>4. \A request \in Requests :
        SaysApplied(outcomes'[request]) =>
          outcomes'[request] = outcomes[request] \/ StoredIn(Lines', outcomes'[request].outcome)
  BY <1>3
<1>5. QED
  BY <1>1, <1>2, <1>4, AnswersStay

LEMMA PromisedInit ==
  ASSUME Init
  PROVE  Promised
<1>1. <<>> \in Seq(Entry) /\ Range(<<>>) = {}
  BY DEF Range
<1>2. \A past \in Range(AuthorityFromLog(<<>>).remembered) : \E entry \in Range(<<>>) : past = Remembered(entry)
  BY <1>1, LoadedAuthority
<1>3. Range(authority.remembered) = {} /\ \A client \in Clients : Range(toClient[client]) = {}
  BY <1>1, <1>2 DEF Init
<1>4. \A request \in Requests : ~ SaysApplied(outcomes[request])
  BY DEF Init, SaysApplied, Unanswered
<1>5. QED
  BY <1>3, <1>4 DEF Promised, AnswersStored

LEMMA PromisedClient ==
  ASSUME Base, Promised, NEW client \in Clients, ClientNext(client)
  PROVE  Promised'
<1>0. /\ toClient \in [Clients -> Seq(Frame)] /\ persisting \in Seq(Item)
      /\ outcomes \in [Requests -> {Unanswered} \cup Told] /\ file \in Seq(Entry)
      /\ toClient[client] \in Seq(Frame)
  BY DEF Base, Types, ServerTypes, ClientTypes, NetworkTypes
<1>1. ASSUME NEW request \in Requests, Submit(client, request)
      PROVE  Promised'
  <2>1. /\ outcomes' = outcomes \/ outcomes' = [outcomes EXCEPT ![request] = Stopped]
        /\ UNCHANGED <<file, retries, log, authority, persisting, toClient, crashes, failures>>
    BY <1>1 DEF Submit, serverVars, faultVars
  <2>2. \A other \in Requests : outcomes'[other] = outcomes[other] \/ ~ SaysApplied(outcomes'[other])
    BY <1>0, <2>1 DEF SaysApplied, Stopped
  <2>3. QED
    BY <2>1, <2>2, PromisedUntouched
<1>2. ASSUME WelcomeArrives(client) \/ EntriesArrive(client)
      PROVE  Promised'
  <2>1. /\ toClient[client] # <<>> /\ toClient' = [toClient EXCEPT ![client] = Tail(@)]
        /\ UNCHANGED <<file, retries, log, authority, persisting, outcomes, crashes, failures>>
    BY <1>2 DEF WelcomeArrives, EntriesArrive, serverVars, faultVars
  <2>2. \A other \in Clients : Range(toClient'[other]) \subseteq Range(toClient[other])
    BY <1>0, <2>1, RangeOfTail
  <2>3. QED
    BY <2>1, <2>2, PromisedUntouched
<1>3. ASSUME OutcomeArrives(client)
      PROVE  Promised'
  <2> DEFINE answer == Head(toClient[client])
  <2>1. /\ toClient[client] # <<>> /\ answer.kind = "outcome"
        /\ toClient' = [toClient EXCEPT ![client] = Tail(@)]
        /\ \A request \in Requests : outcomes'[request] = outcomes[request] \/ outcomes'[request] = answer.told
        /\ UNCHANGED <<file, retries, log, authority, persisting, crashes, failures>>
    BY <1>0, <1>3 DEF OutcomeArrives, serverVars, faultVars
  <2>2. answer \in Range(toClient[client]) /\ \A other \in Clients : Range(toClient'[other]) \subseteq Range(toClient[other])
    BY <1>0, <2>1, RangeOfTail
  <2> HIDE DEF answer
  <2>3. QED
    BY <2>1, <2>2, PromisedUntouched
<1>4. ASSUME Connect(client)
      PROVE  Promised'
  <2> DEFINE sent == <<Welcome, EntriesFrame(Following(log', replica[client].sequence))>>
  <2>1. /\ toClient' = [toClient EXCEPT ![client] = sent]
        /\ log' = (IF loaded THEN log ELSE file)
        /\ authority' = IF loaded THEN authority ELSE AuthorityFromLog(file)
        /\ UNCHANGED <<file, retries, persisting, outcomes, crashes, failures>>
    BY <1>4 DEF Connect, faultVars
  <2>2. \A frame \in Range(sent) : ~ Promises(frame)
    BY DEF Range, Promises, Welcome, EntriesFrame
  <2> HIDE DEF sent
  <2>3. \A other \in Clients : \A frame \in Range(toClient'[other]) : frame \in Range(toClient[other]) \/ ~ Promises(frame)
    BY <1>0, <2>1, <2>2
  <2>4. Lines' = Lines /\ BeingAppended' = BeingAppended
    <3>1. ~ loaded => persisting = <<>>
      BY DEF Base, EmptyUnlessLoaded
    <3>2. QED
      BY <2>1, <3>1 DEF Lines, BeingAppended
  <2>5. \A past \in Range(authority'.remembered) :
          past \in Range(authority.remembered) \/ StoredIn(Lines' \cup BeingAppended', past.outcome)
    <3>1. CASE loaded
      BY <2>1, <3>1
    <3>2. CASE ~ loaded
      <4>1. ASSUME NEW past \in Range(authority'.remembered)
            PROVE  StoredIn(Lines' \cup BeingAppended', past.outcome)
        <5>1. PICK entry \in Range(file) : past = Remembered(entry)
          BY <1>0, <2>1, <3>2, LoadedAuthority
        <5>2. entry \in Lines'
          BY <2>4 DEF Lines
        <5>3. QED
          BY <5>1, <5>2 DEF StoredIn, Remembered
      <4>2. QED
        BY <4>1
    <3>3. QED
      BY <3>1, <3>2
  <2>6. AnswersStored => AnswersStored'
    BY <2>1, <2>3, <2>4, <2>5, AnswersStay
  <2>7. QED
    BY <2>1, <2>6 DEF Promised
<1>5. ASSUME Drop(client) \/ Stop(client)
      PROVE  Promised'
  <2>1. /\ toClient' = [toClient EXCEPT ![client] = <<>>]
        /\ persisting' = Unheard(persisting, client)
        /\ \A request \in Requests : outcomes'[request] = outcomes[request] \/ outcomes'[request] = Stopped
        /\ UNCHANGED <<file, retries, log, authority, crashes, failures>>
    BY <1>5 DEF Drop, Stop, Lose, faultVars
  <2>2. persisting' = <<>> <=> persisting = <<>>
    BY <1>0, <2>1, UnheardItems
  <2>3. \A other \in Clients : Range(toClient'[other]) \subseteq Range(toClient[other])
    BY <1>0, <2>1 DEF Range
  <2>4. \A request \in Requests : outcomes'[request] = outcomes[request] \/ ~ SaysApplied(outcomes'[request])
    BY <2>1 DEF SaysApplied, Stopped
  <2>5. QED
    BY <2>1, <2>2, <2>3, <2>4, PromisedUntouched
<1>6. QED
  BY <1>1, <1>2, <1>3, <1>4, <1>5 DEF ClientNext

LEMMA PromisedDecides ==
  ASSUME Base, Promised, DecideNext
  PROVE  Promised'
<1> DEFINE item == Head(tail)
<1>1. /\ tail # <<>> /\ persisting = <<>>
      /\ UNCHANGED <<file, retries, outcomes, crashes, failures>>
      /\ \/ AnswersBefore(item)
         \/ AnswersAgainst(item)
         \/ \E entry \in Entry : Enters(item, entry)
  BY DecideNextCases
<1>2. item \in Item /\ OwnItem(item) /\ item.request \in Requests /\ PersonOf[item.client] \in People
  BY <1>1, FirstItem
<1>3. /\ toClient \in [Clients -> Seq(Frame)] /\ authority.remembered \in Seq(Past)
      /\ \A past \in Range(authority.remembered) : past.outcome \in Outcome
  <2>1. toClient \in [Clients -> Seq(Frame)] /\ authority.remembered \in Seq(Past)
    BY DEF Base, Types, ServerTypes, NetworkTypes, Authority
  <2>2. Range(authority.remembered) \subseteq Past
    BY <2>1, RangeIsIn
  <2>3. QED
    BY <2>1, <2>2 DEF Past
<1>4. Lines' = Lines /\ BeingAppended = {}
  BY <1>1 DEF Lines, BeingAppended
<1> HIDE DEF item
<1>5. SUFFICES ASSUME AnswersStored
               PROVE  AnswersStored'
  BY <1>1 DEF Promised
<1>6. ASSUME NEW outcome \in Outcome, toClient' = Answer(toClient, item, outcome)
      PROVE  \A client \in Clients : \A frame \in Range(toClient'[client]) :
               \/ frame \in Range(toClient[client])
               \/ frame = OutcomeFrame(item.request, Decided(outcome))
  <2> DEFINE answer == OutcomeFrame(item.request, Decided(outcome))
  <2>1. answer \in Frame
    BY <1>2, <1>6 DEF OutcomeFrame, Frame, Told, Decided
  <2> HIDE DEF answer
  <2>2. ASSUME NEW client \in Clients
        PROVE  Range(toClient'[client]) \subseteq Range(toClient[client]) \cup {answer}
    <3>1. toClient'[client] = toClient[client] \/ toClient'[client] = Append(toClient[client], answer)
      BY <1>2, <1>3, <1>6, Answered DEF answer
    <3>2. toClient[client] \in Seq(Frame)
      BY <1>3
    <3>3. Range(Append(toClient[client], answer)) = Range(toClient[client]) \cup {answer}
      BY <2>1, <3>2, RangeOfAppend
    <3>4. QED
      BY <3>1, <3>3
  <2>3. QED
    BY <2>2 DEF answer
<1>7. CASE AnswersBefore(item)
  <2>1. PICK past \in Range(authority.remembered) : toClient' = Answer(toClient, item, past.outcome)
    BY <1>7 DEF AnswersBefore
  <2>2. UNCHANGED <<log, authority, persisting>>
    BY <1>7 DEF AnswersBefore
  <2>3. BeingAppended' = BeingAppended
    BY <2>2 DEF BeingAppended
  <2>4. past.outcome.applied => StoredIn(Lines', past.outcome)
    BY <1>4, <1>5 DEF AnswersStored
  <2>5. \A client \in Clients : \A frame \in Range(toClient'[client]) :
          Promises(frame) => frame \in Range(toClient[client]) \/ StoredIn(Lines', frame.told.outcome)
    BY <1>3, <1>6, <2>1, <2>4 DEF Promises, SaysApplied, OutcomeFrame, Decided
  <2>6. QED
    BY <1>1, <1>4, <1>5, <2>2, <2>3, <2>5, AnswersStay
<1>8. CASE AnswersAgainst(item)
  <2> DEFINE refusal == Rejected(item.request)
  <2>1. refusal \in Outcome /\ refusal.applied = FALSE
    BY <1>2 DEF Rejected, Outcome
  <2> HIDE DEF refusal
  <2>2. /\ toClient' = Answer(toClient, item, refusal)
        /\ authority'.remembered = Memory(authority, PersonOf[item.client], refusal)
        /\ UNCHANGED <<log, persisting>>
    BY <1>8 DEF AnswersAgainst, refusal
  <2>3. BeingAppended' = BeingAppended
    BY <2>2 DEF BeingAppended
  <2>4. \A client \in Clients : \A frame \in Range(toClient'[client]) :
          Promises(frame) => frame \in Range(toClient[client])
    BY <1>6, <2>1, <2>2 DEF Promises, SaysApplied, OutcomeFrame, Decided
  <2>5. \A past \in Range(authority'.remembered) :
          past \in Range(authority.remembered) \/ past = [person |-> PersonOf[item.client], outcome |-> refusal]
    BY <1>2, <1>3, <2>1, <2>2, MemoryGains
  <2>6. \A past \in Range(authority'.remembered) : past.outcome.applied => past \in Range(authority.remembered)
    BY <2>1, <2>5
  <2>7. QED
    BY <1>1, <1>4, <1>5, <2>3, <2>4, <2>6, AnswersStay
<1>9. ASSUME NEW entry \in Entry, Enters(item, entry)
      PROVE  AnswersStored'
  <2>1. /\ Last(log') = entry /\ persisting' = <<item>> /\ UNCHANGED toClient
        /\ authority'.remembered = Memory(authority, entry.actor, Remembered(entry).outcome)
    BY <1>9 DEF Enters
  <2>2. BeingAppended' = {entry}
    BY <2>1 DEF BeingAppended
  <2>3. Remembered(entry).outcome \in Outcome /\ entry.actor \in People
    BY DEF Remembered, Outcome, Entry
  <2>4. \A past \in Range(authority'.remembered) :
          \/ past \in Range(authority.remembered)
          \/ past = [person |-> entry.actor, outcome |-> Remembered(entry).outcome]
    BY <1>3, <2>1, <2>3, MemoryGains
  <2>5. StoredIn(Lines' \cup BeingAppended', Remembered(entry).outcome)
    BY <2>2 DEF StoredIn, Remembered
  <2>6. \A past \in Range(authority'.remembered) :
          past \in Range(authority.remembered) \/ StoredIn(Lines' \cup BeingAppended', past.outcome)
    BY <2>4, <2>5
  <2>7. QED
    BY <1>1, <1>4, <1>5, <2>1, <2>2, <2>6, AnswersStay
<1>10. QED
  BY <1>1, <1>7, <1>8, <1>9

\* An append ends: the entry is on disk or in a timer, and its sender is told.
LEMMA PromisedAppends ==
  ASSUME Base, Promised, Persisted \/ PersistFails
  PROVE  Promised'
<1>0. file \in Seq(Entry) /\ toClient \in [Clients -> Seq(Frame)]
  BY DEF Base, Types, ServerTypes, NetworkTypes
<1>1. /\ persisting # <<>> /\ persisting' = <<>> /\ Announce
      /\ UNCHANGED <<log, authority, outcomes, crashes>>
      /\ failures' = failures \/ failures' = failures + 1
  BY DEF Persisted, PersistFails, clientVars, faultVars
<1>2. /\ Last(log) \in Entry /\ Remembered(Last(log)).outcome \in Outcome
      /\ persisting[1].request \in Requests
      /\ \A client \in Clients :
           \/ ~ Connected(client) /\ toClient'[client] = toClient[client]
           \/ /\ Connected(client)
              /\ toClient'[client] = Append(toClient[client], EntriesFrame(<<Last(log)>>))
           \/ /\ Connected(client)
              /\ toClient'[client] = Append(Append(toClient[client], EntriesFrame(<<Last(log)>>)),
                                            OutcomeFrame(persisting[1].request,
                                                         Decided(Remembered(Last(log)).outcome)))
  BY <1>1, Announced
<1> DEFINE entry == Last(log)
           news == EntriesFrame(<<entry>>)
           answer == OutcomeFrame(persisting[1].request, Decided(Remembered(entry).outcome))
<1>3. entry \in Entry /\ news \in Frame /\ answer \in Frame /\ ~ Promises(news)
  BY <1>2 DEF EntriesFrame, OutcomeFrame, Frame, Told, Decided, Promises
<1>4. answer.told.outcome = Remembered(entry).outcome
  BY DEF OutcomeFrame, Decided
<1>a. failures \in Nat /\ (failures' = 0 => failures = 0)
  BY <1>1 DEF Base, Types
<1>5. /\ Range(file) \cup retries \cup {entry} \subseteq Lines'
  <2>1. Range(Append(file, entry)) = Range(file) \cup {entry}
    BY <1>0, <1>3, RangeOfAppend
  <2>2. CASE Persisted
    BY <2>1, <2>2 DEF Persisted, Lines
  <2>3. CASE PersistFails
    BY <2>1, <2>3 DEF PersistFails, WithOrWithout, Retrying, Lines
  <2>4. QED
    BY <2>2, <2>3
<1>6. \A client \in Clients : Range(toClient'[client]) \subseteq Range(toClient[client]) \cup {news, answer}
  <2>1. ASSUME NEW client \in Clients
        PROVE  Range(toClient'[client]) \subseteq Range(toClient[client]) \cup {news, answer}
    <3> HIDE DEF news, answer
    <3>1. toClient[client] \in Seq(Frame)
      BY <1>0
    <3>2. Append(toClient[client], news) \in Seq(Frame)
          /\ Range(Append(toClient[client], news)) = Range(toClient[client]) \cup {news}
      BY <1>3, <3>1, RangeOfAppend
    <3>3. Range(Append(Append(toClient[client], news), answer)) = Range(Append(toClient[client], news)) \cup {answer}
      <4> DEFINE longer == Append(toClient[client], news)
      <4>1. longer \in Seq(Frame) /\ answer \in Frame
        BY <1>3, <3>2
      <4> HIDE DEF longer
      <4>2. Range(Append(longer, answer)) = Range(longer) \cup {answer}
        BY <4>1, RangeOfAppend
      <4>3. QED
        BY <4>2 DEF longer
    <3>4. \/ toClient'[client] = toClient[client]
          \/ toClient'[client] = Append(toClient[client], news)
          \/ toClient'[client] = Append(Append(toClient[client], news), answer)
      BY <1>2 DEF news, answer
    <3>5. QED
      BY <3>2, <3>3, <3>4
  <2>2. QED
    BY <2>1
<1> HIDE DEF news, answer, entry
<1>7. StoredIn(Lines', answer.told.outcome)
  BY <1>4, <1>5 DEF StoredIn, Remembered
<1>8. \A client \in Clients : \A frame \in Range(toClient'[client]) :
        Promises(frame) => frame \in Range(toClient[client]) \/ StoredIn(Lines', frame.told.outcome)
  BY <1>3, <1>6, <1>7
<1>9. BeingAppended = {entry}
  BY <1>1 DEF BeingAppended, entry
<1>10. Lines \subseteq Lines' /\ Lines \cup BeingAppended \subseteq Lines' \cup BeingAppended'
  BY <1>5, <1>9 DEF Lines
<1>11. AnswersStored => AnswersStored'
  BY <1>1, <1>8, <1>10, AnswersStay
<1>12. QED
  BY <1>1, <1>a, <1>11 DEF Promised

LEMMA PromisedRoom ==
  ASSUME Base, Smooth, Promised, RoomNext
  PROVE  Promised'
<1>0. /\ file \in Seq(Entry) /\ toClient \in [Clients -> Seq(Frame)] /\ retries \in SUBSET Entry
      /\ failures \in Nat /\ crashes \in Nat /\ log \in Seq(Entry)
  BY DEF Base, Types, ServerTypes, NetworkTypes
<1>1. ASSUME NEW client \in Clients, Arrives(client) \/ StrayArrives(client)
      PROVE  Promised'
  BY <1>1, PromisedUntouched DEF Arrives, StrayArrives, serverVars, clientVars, faultVars
<1>2. ASSUME NEW client \in Clients, RefusedAtRate(client)
      PROVE  Promised'
  <2> DEFINE frame == OutcomeFrame(Head(toServer[client]), RateLimited)
  <2>1. /\ toServer[client] # <<>>
        /\ toClient' = [toClient EXCEPT ![client] = Append(@, frame)]
        /\ UNCHANGED <<file, retries, log, authority, persisting, outcomes, crashes, failures>>
    BY <1>2 DEF RefusedAtRate, serverVars, clientVars, faultVars
  <2>2. toServer[client] \in Seq(Requests) /\ toClient[client] \in Seq(Frame)
    BY DEF Base, Types, NetworkTypes
  <2>3. frame \in Frame /\ ~ Promises(frame)
    BY <2>1, <2>2, RangeOfTail DEF Frame, OutcomeFrame, Told, Promises, SaysApplied, RateLimited
  <2> HIDE DEF frame
  <2>4. Range(Append(toClient[client], frame)) = Range(toClient[client]) \cup {frame}
    BY <2>2, <2>3, RangeOfAppend
  <2>5. \A other \in Clients : \A some \in Range(toClient'[other]) : some \in Range(toClient[other]) \/ ~ Promises(some)
    BY <1>0, <2>1, <2>3, <2>4
  <2>6. QED
    BY <2>1, <2>5, PromisedUntouched
<1>3. ASSUME NEW entry \in retries, Retry(entry) \/ RetryFails(entry)
      PROVE  Promised'
  <2>1. /\ UNCHANGED <<log, authority, persisting, outcomes, toClient, crashes>>
        /\ failures' = failures \/ failures' = failures + 1
    BY <1>3 DEF Retry, RetryFails, clientVars, networkVars, faultVars
  <2>2. Range(Append(file, entry)) = Range(file) \cup {entry}
    BY <1>0, RangeOfAppend
  <2>3. Lines \subseteq Lines'
    BY <1>3, <2>2 DEF Retry, RetryFails, WithOrWithout, Lines
  <2>4. BeingAppended' = BeingAppended
    BY <2>1 DEF BeingAppended
  <2>5. AnswersStored => AnswersStored'
    BY <2>1, <2>3, <2>4, AnswersStay
  <2>6. failures' = 0 => failures = 0
    BY <1>0, <2>1
  <2>7. QED
    BY <2>1, <2>5, <2>6 DEF Promised
<1>4. ASSUME Unload \/ Crash
      PROVE  Promised'
  <2>1. /\ authority' = AuthorityFromLog(<<>>) /\ UNCHANGED <<outcomes, failures>>
        /\ \A client \in Clients : toClient'[client] = toClient[client] \/ toClient'[client] = <<>>
    BY <1>0, <1>4 DEF Unload, Crash, EmptyRoom, clientVars, faultVars
  <2>2. <<>> \in Seq(Entry) /\ Range(<<>>) = {}
    BY DEF Range
  <2>3. Range(authority'.remembered) = {}
    BY <2>1, <2>2, LoadedAuthority
  <2>4. \A client \in Clients : Range(toClient'[client]) \subseteq Range(toClient[client])
    BY <2>1, <2>2
  <2>5. CASE Unload
    <3>1. persisting = <<>> /\ UNCHANGED <<file, retries, crashes>>
      BY <2>5 DEF Unload, faultVars
    <3>2. Lines' = Lines /\ BeingAppended = {}
      BY <3>1 DEF Lines, BeingAppended
    <3>3. AnswersStored => AnswersStored'
      BY <2>1, <2>3, <2>4, <3>2, AnswersStay
    <3>4. QED
      BY <2>1, <3>1, <3>3 DEF Promised
  <2>6. CASE Crash
    <3>1. /\ crashes' = crashes + 1 /\ retries' = {}
          /\ file' \in IF persisting = <<>> THEN {file} ELSE WithOrWithout(Last(log))
      BY <2>6 DEF Crash
    <3>2. CASE failures = 0
      <4>1. retries = {}
        BY <3>2 DEF Smooth, FileFollows
      <4>2. Range(file) \subseteq Range(file')
        <5>1. persisting # <<>> => Last(log) \in Entry
          BY <1>0 DEF Base, PersistsLast, Last
        <5>2. persisting # <<>> => Range(Append(file, Last(log))) = Range(file) \cup {Last(log)}
          BY <1>0, <5>1, RangeOfAppend
        <5>3. QED
          BY <3>1, <5>2 DEF WithOrWithout
      <4>3. Lines \subseteq Lines'
        BY <4>1, <4>2 DEF Lines
      <4>4. AnswersStored
        BY <3>2 DEF Promised
      <4>5. \A request \in Requests : SaysApplied(outcomes'[request]) => outcomes'[request] = outcomes[request]
        BY <2>1
      <4>6. AnswersStored'
        <5>1. \A request \in Requests : SaysApplied(outcomes'[request]) => StoredIn(Lines', outcomes'[request].outcome)
          BY <2>1, <4>3, <4>4, MoreIsStored DEF AnswersStored
        <5>2. \A client \in Clients : \A frame \in Range(toClient'[client]) :
                Promises(frame) => StoredIn(Lines', frame.told.outcome)
          BY <2>4, <4>3, <4>4, MoreIsStored DEF AnswersStored
        <5>3. QED
          BY <2>3, <5>1, <5>2 DEF AnswersStored
      <4>7. QED
        BY <4>6 DEF Promised
    <3>3. CASE failures # 0
      BY <1>0, <2>1, <3>1, <3>3 DEF Promised
    <3>4. QED
      BY <3>2, <3>3
  <2>7. QED
    BY <1>4, <2>5, <2>6
<1>5. QED
  BY <1>1, <1>2, <1>3, <1>4, PromisedDecides, PromisedAppends DEF RoomNext

LEMMA PromisedNext ==
  ASSUME Base, Smooth, Promised, [Next]_vars
  PROVE  Promised'
<1>1. ASSUME UNCHANGED vars
      PROVE  Promised'
  <2>1. UNCHANGED <<file, retries, log, authority, persisting, outcomes, toClient, crashes, failures>>
    BY <1>1 DEF vars, serverVars, clientVars, networkVars, faultVars
  <2>2. QED
    BY <2>1, PromisedUntouched
<1>2. QED
  BY <1>1, PromisedClient, PromisedRoom DEF Next

\* Every outcome "applied", told, under way or remembered, has its entry on disk, in a timer
\* or, if only remembered, in the append under way.
THEOREM PromisedAlways == Spec => []Promised
<1>1. Init => Promised
  BY PromisedInit
<1>2. Base /\ Smooth /\ Promised /\ [Next]_vars => Promised'
  BY PromisedNext
<1>3. QED
  BY <1>1, <1>2, BaseAlways, SmoothAlways, PTL DEF Spec

\* Who was told "applied" has the entry on disk, or in a timer that is still trying
\* (AppliedIsStored): whatever fails without a crash, and whatever crashes without a
\* failed append.
THEOREM WhatIsPromisedIsStored == Spec => []AppliedIsStored
<1>1. Promised => AppliedIsStored
  BY DEF Promised, AnswersStored, AppliedIsStored, SaysApplied, Lines, StoredIn, Stored
<1>2. QED
  BY <1>1, PromisedAlways, PTL

-----------------------------------------------------------------------------
\* One answer to each request, while no append failed.  The memory of outcomes must
\* have room for every request there is: what is forgotten may be decided again.

RoomForEveryRequest == IsFiniteSet(Requests) /\ Cardinality(Requests) <= MaxRemembered

AuthorOf(request) == PersonOf[ClientOf[request]]

\* No two of some entries answer one request, and its author wrote each.
Once(entries) ==
  /\ \A i, j \in DOMAIN entries : entries[i].request = entries[j].request => i = j
  /\ \A i \in DOMAIN entries : entries[i].actor = AuthorOf(entries[i].request)

Absent(request, entries) == \A i \in DOMAIN entries : entries[i].request # request

\* What is remembered: one outcome of a request, that of its author, every entry of the log
\* among them; what was refused is not in the log.
RemembersOnce(remembered, entries) ==
  /\ \A i, j \in DOMAIN remembered :
       remembered[i].outcome.request = remembered[j].outcome.request => i = j
  /\ \A i \in DOMAIN remembered :
       /\ remembered[i].person = AuthorOf(remembered[i].outcome.request)
       /\ remembered[i].outcome.applied = FALSE => Absent(remembered[i].outcome.request, entries)
  /\ \A i \in DOMAIN entries : \E j \in DOMAIN remembered : remembered[j] = Remembered(entries[i])

SaysRefused(told) == told.kind = "decided" /\ told.outcome.applied = FALSE

Refuses(frame) == frame.kind = "outcome" /\ SaysRefused(frame.told)

RefusedIn(remembered, request) ==
  \E i \in DOMAIN remembered : remembered[i].outcome.request = request /\ remembered[i].outcome.applied = FALSE

IsWaiting(request) == \E client \in Clients : request \in Range(waiting[client])

\* A copy of a request is on its way to a decision.
IsUnderway(request) ==
  \/ \E client \in Clients : request \in Range(toServer[client]) \cup Range(stray[client])
  \/ \E item \in Range(tail) : item.request = request

\* A request whose sender was told "refused" does not wait and is not on disk; the room
\* remembers the refusal, or has no copy of it left to decide.
RefusalStands(request) ==
  /\ ~ IsWaiting(request)
  /\ Absent(request, file)
  /\ \/ RefusedIn(authority.remembered, request)
     \/ Absent(request, log) /\ ~ IsUnderway(request)

RefusalsStand ==
  /\ \A request \in Requests : SaysRefused(outcomes[request]) => RefusalStands(request)
  /\ \A client \in Clients : \A frame \in Range(toClient[client]) :
       Refuses(frame) => RefusedIn(authority.remembered, frame.request)

Singular ==
  /\ Once(log) /\ Once(file)
  /\ RemembersOnce(authority.remembered, log)
  /\ RefusalsStand

OneAnswer == failures = 0 /\ RoomForEveryRequest => Singular

LEMMA NoMoreThan ==
  ASSUME NEW n \in Nat, NEW T, IsFiniteSet(T), NEW f \in [1 .. n -> T],
         \A i, j \in 1 .. n : f[i] = f[j] => i = j
  PROVE  n <= Cardinality(T)
<1>1. f \in Injection(1 .. n, T)
  BY DEF Injection, IsInjective
<1>2. Cardinality(1 .. n) <= Cardinality(T)
  BY <1>1, FS_Injection
<1>3. Cardinality(1 .. n) = n
  BY FS_Interval
<1>4. QED
  BY <1>2, <1>3

\* Distinct requests other than one leave room to remember that one as well.
LEMMA MemoryHasRoom ==
  ASSUME RoomForEveryRequest, NEW state, state.remembered \in Seq(Past), NEW request \in Requests,
         \A i, j \in DOMAIN state.remembered :
           state.remembered[i].outcome.request = state.remembered[j].outcome.request => i = j,
         \A i \in DOMAIN state.remembered : state.remembered[i].outcome.request # request,
         NEW actor \in People, NEW outcome \in Outcome
  PROVE  Memory(state, actor, outcome) = Append(state.remembered, [person |-> actor, outcome |-> outcome])
<1> DEFINE remembered == state.remembered
           n == Len(remembered)
           f == [i \in 1 .. n |-> remembered[i].outcome.request]
           others == Requests \ {request}
           new == [person |-> actor, outcome |-> outcome]
<1>1. n \in Nat /\ DOMAIN remembered = 1 .. n /\ \A i \in 1 .. n : remembered[i] \in Past
  OBVIOUS
<1>2. \A i \in 1 .. n : remembered[i].outcome.request \in Requests
  BY <1>1 DEF Past, Outcome
<1>3. f \in [1 .. n -> others] /\ \A i, j \in 1 .. n : f[i] = f[j] => i = j
  BY <1>1, <1>2
<1>4. IsFiniteSet(others) /\ Cardinality(others) = Cardinality(Requests) - 1 /\ Cardinality(Requests) \in Nat
  BY FS_RemoveElement, FS_CardinalityType DEF RoomForEveryRequest
<1>5. n <= Cardinality(others)
  <2> HIDE DEF f, n, others
  <2>1. QED
    BY <1>1, <1>3, <1>4, NoMoreThan
<1>6. new \in Past
  BY DEF Past
<1> HIDE DEF new, others, f
<1>7. Append(remembered, new) \in Seq(Past) /\ Len(Append(remembered, new)) = n + 1
  BY <1>6
<1>8. MaxRemembered \in Nat \ {0} /\ n + 1 <= MaxRemembered
  BY <1>1, <1>4, <1>5, DiscussionLimitsAssumption DEF RoomForEveryRequest
<1>9. LastOf(MaxRemembered, Append(remembered, new)) = Append(remembered, new)
  BY <1>7, <1>8, LastOfSome
<1>10. QED
  BY <1>9 DEF Memory, new

\* What a load remembers is all of a log that answers each request once.
LEMMA LoadRemembersOnce ==
  ASSUME RoomForEveryRequest, NEW entries \in Seq(Entry), Once(entries)
  PROVE  RemembersOnce(AuthorityFromLog(entries).remembered, entries)
<1> DEFINE n == Len(entries)
           f == [i \in 1 .. n |-> entries[i].request]
           all == [i \in DOMAIN entries |-> Remembered(entries[i])]
<1>1. n \in Nat /\ DOMAIN entries = 1 .. n /\ \A i \in 1 .. n : entries[i] \in Entry
  OBVIOUS
<1>2. f \in [1 .. n -> Requests] /\ \A i, j \in 1 .. n : f[i] = f[j] => i = j
  BY <1>1 DEF Once, Entry
<1>3. n <= Cardinality(Requests)
  <2> HIDE DEF f, n
  <2>1. QED
    BY <1>1, <1>2, NoMoreThan DEF RoomForEveryRequest
<1>4. \A entry \in Entry : Remembered(entry) \in Past
  BY DEF Remembered, Past, Outcome, Entry
<1>5. all \in Seq(Past) /\ Len(all) = n /\ DOMAIN all = 1 .. n /\ \A i \in 1 .. n : all[i] = Remembered(entries[i])
  BY <1>1, <1>4
<1>6. MaxRemembered \in Nat \ {0} /\ Cardinality(Requests) \in Nat /\ n <= MaxRemembered
  BY <1>1, <1>3, FS_CardinalityType, DiscussionLimitsAssumption DEF RoomForEveryRequest
<1>7. AuthorityFromLog(entries).remembered = LastOf(MaxRemembered, all)
  BY DEF AuthorityFromLog
<1> HIDE DEF all
<1>8. AuthorityFromLog(entries).remembered = all
  BY <1>5, <1>6, <1>7, LastOfSome
<1>9. \A i \in 1 .. n : /\ all[i].outcome.request = entries[i].request /\ all[i].person = entries[i].actor
                        /\ all[i].outcome.applied = TRUE
  BY <1>5 DEF Remembered
<1> HIDE DEF n
<1>10. RemembersOnce(all, entries)
  BY <1>1, <1>5, <1>9 DEF RemembersOnce, Once
<1>11. QED
  BY <1>8, <1>10

LEMMA NothingOnce ==
  ASSUME NEW remembered, DOMAIN remembered = {}
  PROVE  Once(<<>>) /\ RemembersOnce(remembered, <<>>) /\ \A request : Absent(request, <<>>)
BY DEF Once, RemembersOnce, Absent

\* Longer logs and longer memories.
LEMMA OnceAppend ==
  ASSUME NEW entries \in Seq(Entry), Once(entries), NEW entry \in Entry, Absent(entry.request, entries),
         entry.actor = AuthorOf(entry.request)
  PROVE  /\ Once(Append(entries, entry))
         /\ \A request : Absent(request, entries) /\ request # entry.request => Absent(request, Append(entries, entry))
<1> DEFINE longer == Append(entries, entry)
           n == Len(entries)
<1>1. n \in Nat /\ DOMAIN entries = 1 .. n /\ DOMAIN longer = 1 .. n + 1 /\ longer[n + 1] = entry
      /\ \A i \in 1 .. n : longer[i] = entries[i]
  OBVIOUS
<1>2. \A i \in 1 .. n + 1 : i = n + 1 \/ i \in 1 .. n
  BY <1>1
<1> HIDE DEF longer, n
<1>3. Once(longer)
  BY <1>1, <1>2 DEF Once, Absent
<1>4. \A request : Absent(request, entries) /\ request # entry.request => Absent(request, longer)
  BY <1>1, <1>2 DEF Absent
<1>5. QED
  BY <1>3, <1>4 DEF longer

LEMMA RefusedInMore ==
  ASSUME NEW remembered \in Seq(Past), NEW past \in Past, NEW request, RefusedIn(remembered, request)
  PROVE  RefusedIn(Append(remembered, past), request)
<1> DEFINE longer == Append(remembered, past)
           n == Len(remembered)
<1>1. DOMAIN remembered = 1 .. n /\ DOMAIN longer = 1 .. n + 1 /\ n \in Nat
      /\ \A i \in 1 .. n : longer[i] = remembered[i]
  OBVIOUS
<1>2. \A i \in 1 .. n : i \in 1 .. n + 1
  BY <1>1
<1> HIDE DEF longer, n
<1>3. RefusedIn(longer, request)
  BY <1>1, <1>2 DEF RefusedIn
<1>4. QED
  BY <1>3 DEF longer

\* A refusal is remembered, of a request that is not in the log.
LEMMA RemembersRefusalToo ==
  ASSUME NEW remembered \in Seq(Past), NEW entries \in Seq(Entry), RemembersOnce(remembered, entries),
         NEW past \in Past, past.person = AuthorOf(past.outcome.request),
         \A i \in DOMAIN remembered : remembered[i].outcome.request # past.outcome.request
  PROVE  /\ Absent(past.outcome.request, entries)
         /\ RemembersOnce(Append(remembered, past), entries)
         /\ past.outcome.applied = FALSE => RefusedIn(Append(remembered, past), past.outcome.request)
<1> DEFINE longer == Append(remembered, past)
           n == Len(remembered)
<1>1. n \in Nat /\ DOMAIN remembered = 1 .. n /\ DOMAIN longer = 1 .. n + 1 /\ longer[n + 1] = past
      /\ \A i \in 1 .. n : longer[i] = remembered[i]
  OBVIOUS
<1>2. \A i \in 1 .. n + 1 : i = n + 1 \/ i \in 1 .. n
  BY <1>1
<1>a. n + 1 \in 1 .. n + 1 /\ \A i \in 1 .. n : i \in 1 .. n + 1
  BY <1>1
<1>3. Absent(past.outcome.request, entries)
  <2>1. ASSUME NEW i \in DOMAIN entries
        PROVE  entries[i].request # past.outcome.request
    <3>1. PICK j \in DOMAIN remembered : remembered[j] = Remembered(entries[i])
      BY DEF RemembersOnce
    <3>2. remembered[j].outcome.request = entries[i].request
      BY <3>1 DEF Remembered
    <3>3. QED
      BY <3>1, <3>2
  <2>2. QED
    BY <2>1 DEF Absent
<1> HIDE DEF longer, n
<1>4. \A i, j \in DOMAIN longer : longer[i].outcome.request = longer[j].outcome.request => i = j
  BY <1>1, <1>2 DEF RemembersOnce
<1>5. \A i \in DOMAIN longer :
        /\ longer[i].person = AuthorOf(longer[i].outcome.request)
        /\ longer[i].outcome.applied = FALSE => Absent(longer[i].outcome.request, entries)
  BY <1>1, <1>2, <1>3 DEF RemembersOnce
<1>6. \A i \in DOMAIN entries : \E j \in DOMAIN longer : longer[j] = Remembered(entries[i])
  BY <1>1, <1>a DEF RemembersOnce
<1>7. RemembersOnce(longer, entries)
  BY <1>4, <1>5, <1>6 DEF RemembersOnce
<1>8. past.outcome.applied = FALSE => RefusedIn(longer, past.outcome.request)
  BY <1>1, <1>a DEF RefusedIn
<1>9. QED
  BY <1>3, <1>7, <1>8 DEF longer

\* An entry is remembered as it enters the log.
LEMMA RemembersEntryToo ==
  ASSUME NEW remembered \in Seq(Past), NEW entries \in Seq(Entry), RemembersOnce(remembered, entries),
         NEW entry \in Entry, entry.actor = AuthorOf(entry.request),
         \A i \in DOMAIN remembered : remembered[i].outcome.request # entry.request,
         Once(entries)
  PROVE  RemembersOnce(Append(remembered, Remembered(entry)), Append(entries, entry))
<1> DEFINE past == Remembered(entry)
           longer == Append(remembered, past)
           more == Append(entries, entry)
           n == Len(remembered)
           m == Len(entries)
<1>1. past \in Past /\ past.outcome.request = entry.request /\ past.person = entry.actor /\ past.outcome.applied = TRUE
  BY DEF Remembered, Past, Outcome, Entry
<1> HIDE DEF past
<1>2. n \in Nat /\ DOMAIN remembered = 1 .. n /\ DOMAIN longer = 1 .. n + 1 /\ longer[n + 1] = past
      /\ \A i \in 1 .. n : longer[i] = remembered[i]
  BY <1>1
<1>3. m \in Nat /\ DOMAIN entries = 1 .. m /\ DOMAIN more = 1 .. m + 1 /\ more[m + 1] = entry
      /\ \A i \in 1 .. m : more[i] = entries[i]
  OBVIOUS
<1>4. Absent(entry.request, entries) /\ RemembersOnce(longer, entries)
  BY <1>1, RemembersRefusalToo
<1>5. \A request : Absent(request, entries) /\ request # entry.request => Absent(request, more)
  BY <1>4, OnceAppend
<1>6. \A i \in 1 .. m + 1 : i = m + 1 \/ i \in 1 .. m
  BY <1>3
<1>7. n + 1 \in 1 .. n + 1 /\ \A i \in 1 .. n + 1 : i = n + 1 \/ i \in 1 .. n
  BY <1>2
<1> HIDE DEF longer, more, n, m
<1>8. \A i \in DOMAIN longer : longer[i].outcome.applied = FALSE => Absent(longer[i].outcome.request, more)
  BY <1>1, <1>2, <1>4, <1>5, <1>7 DEF RemembersOnce
<1>9. \A i \in DOMAIN more : \E j \in DOMAIN longer : longer[j] = Remembered(more[i])
  <2>1. longer[n + 1] = Remembered(more[m + 1]) /\ n + 1 \in DOMAIN longer
    BY <1>2, <1>3, <1>7 DEF past
  <2>2. \A i \in 1 .. m : \E j \in DOMAIN longer : longer[j] = Remembered(more[i])
    BY <1>3, <1>4 DEF RemembersOnce
  <2>3. QED
    BY <1>3, <1>6, <2>1, <2>2
<1>10. RemembersOnce(longer, more)
  BY <1>4, <1>8, <1>9 DEF RemembersOnce
<1>11. QED
  BY <1>10 DEF longer, more, past

\* Steps that neither tell a refusal nor send an answered request again.
LEMMA RefusalsStay ==
  ASSUME RefusalsStand, UNCHANGED file,
         \A request \in Requests : SaysRefused(outcomes'[request]) => outcomes'[request] = outcomes[request],
         \A request \in Requests : IsWaiting(request)' => IsWaiting(request) \/ ~ SaysRefused(outcomes'[request]),
         \A request \in Requests : IsUnderway(request)' => IsUnderway(request) \/ IsWaiting(request)',
         \A request : RefusedIn(authority.remembered, request) => RefusedIn(authority'.remembered, request),
         \A request : Absent(request, log) /\ ~ IsUnderway(request) => Absent(request, log'),
         \A client \in Clients : \A frame \in Range(toClient'[client]) :
           Refuses(frame) => frame \in Range(toClient[client]) \/ RefusedIn(authority'.remembered, frame.request)
  PROVE  RefusalsStand'
<1>1. ASSUME NEW request \in Requests, SaysRefused(outcomes'[request])
      PROVE  RefusalStands(request)'
  <2>1. RefusalStands(request)
    BY <1>1 DEF RefusalsStand
  <2>2. ~ IsWaiting(request)'
    BY <1>1, <2>1 DEF RefusalStands
  <2>3. Absent(request, file')
    BY <2>1 DEF RefusalStands
  <2>4. \/ RefusedIn(authority'.remembered, request)
        \/ Absent(request, log') /\ ~ IsUnderway(request)'
    BY <2>1, <2>2 DEF RefusalStands
  <2>5. QED
    BY <2>2, <2>3, <2>4 DEF RefusalStands
<1>2. \A client \in Clients : \A frame \in Range(toClient'[client]) :
        Refuses(frame) => RefusedIn(authority'.remembered, frame.request)
  BY DEF RefusalsStand
<1>3. QED
  BY <1>1, <1>2 DEF RefusalsStand

LEMMA SingularUntouched ==
  ASSUME Singular, UNCHANGED <<file, log, authority>>,
         \A request \in Requests : SaysRefused(outcomes'[request]) => outcomes'[request] = outcomes[request],
         \A request \in Requests : IsWaiting(request)' => IsWaiting(request) \/ ~ SaysRefused(outcomes'[request]),
         \A request \in Requests : IsUnderway(request)' => IsUnderway(request) \/ IsWaiting(request)',
         \A client \in Clients : \A frame \in Range(toClient'[client]) :
           Refuses(frame) => frame \in Range(toClient[client]) \/ RefusedIn(authority'.remembered, frame.request)
  PROVE  Singular'
<1>1. RefusalsStand'
  BY RefusalsStay DEF Singular
<1>2. QED
  BY <1>1 DEF Singular

LEMMA SingularInit ==
  ASSUME Init
  PROVE  Singular
<1>1. <<>> \in Seq(Entry) /\ Range(<<>>) = {}
  BY DEF Range
<1>2. \A past \in Range(AuthorityFromLog(<<>>).remembered) : \E entry \in Range(<<>>) : past = Remembered(entry)
  BY <1>1, LoadedAuthority
<1>3. DOMAIN authority.remembered = {}
  BY <1>1, <1>2 DEF Init, Range
<1>4. log = <<>> /\ file = <<>>
  BY DEF Init
<1>5. \A request \in Requests : ~ SaysRefused(outcomes[request])
  BY DEF Init, SaysRefused, Unanswered
<1>6. \A client \in Clients : Range(toClient[client]) = {}
  BY <1>1 DEF Init
<1>7. QED
  BY <1>3, <1>4, <1>5, <1>6, NothingOnce DEF Singular, RefusalsStand

LEMMA SingularSubmit ==
  ASSUME Base, Singular, NEW client \in Clients, NEW request \in Requests, Submit(client, request)
  PROVE  Singular'
<1>0. /\ outcomes \in [Requests -> {Unanswered} \cup Told] /\ waiting \in [Clients -> Seq(Requests)]
      /\ toServer \in [Clients -> Seq(Requests)]
  BY DEF Base, Types, ClientTypes, NetworkTypes
<1>1. /\ outcomes[request] = Unanswered
      /\ UNCHANGED <<file, log, authority, tail, stray, toClient>>
      /\ \/ outcomes' = [outcomes EXCEPT ![request] = Stopped] /\ UNCHANGED <<waiting, toServer>>
         \/ /\ waiting' = [waiting EXCEPT ![client] = Append(@, request)] /\ UNCHANGED outcomes
            /\ \/ UNCHANGED toServer
               \/ toServer' = [toServer EXCEPT ![client] = Append(@, request)]
  BY DEF Submit, serverVars
<1>2. waiting[client] \in Seq(Requests) /\ toServer[client] \in Seq(Requests)
  BY <1>0
<1>3. /\ Range(Append(waiting[client], request)) = Range(waiting[client]) \cup {request}
      /\ Range(Append(toServer[client], request)) = Range(toServer[client]) \cup {request}
  BY <1>2, RangeOfAppend
<1>4. \A other \in Clients : /\ Range(waiting'[other]) \subseteq Range(waiting[other]) \cup {request}
                             /\ Range(toServer'[other]) \subseteq Range(toServer[other]) \cup {request}
  BY <1>0, <1>1, <1>3
<1>5. ~ SaysRefused(outcomes'[request])
  BY <1>0, <1>1 DEF SaysRefused, Unanswered, Stopped
<1>6. \A other \in Requests : SaysRefused(outcomes'[other]) => outcomes'[other] = outcomes[other]
  BY <1>0, <1>1, <1>5
<1>7. \A other \in Requests : IsWaiting(other)' => IsWaiting(other) \/ ~ SaysRefused(outcomes'[other])
  BY <1>4, <1>5 DEF IsWaiting
<1>8. \A other \in Requests : IsUnderway(other)' => IsUnderway(other) \/ IsWaiting(other)'
  <2>1. CASE UNCHANGED toServer
    BY <1>1, <2>1 DEF IsUnderway
  <2>2. CASE waiting' = [waiting EXCEPT ![client] = Append(@, request)]
    <3>1. IsWaiting(request)'
      BY <1>0, <1>3, <2>2 DEF IsWaiting
    <3>2. QED
      BY <1>1, <1>4, <3>1 DEF IsUnderway
  <2>3. QED
    BY <1>1, <2>1, <2>2
<1>9. QED
  BY <1>1, <1>6, <1>7, <1>8, SingularUntouched

LEMMA SingularArrives ==
  ASSUME Base, Singular, NEW client \in Clients, WelcomeArrives(client) \/ EntriesArrive(client)
  PROVE  Singular'
<1>0. /\ toClient \in [Clients -> Seq(Frame)] /\ waiting \in [Clients -> Seq(Requests)]
      /\ toServer \in [Clients -> Seq(Requests)]
  BY DEF Base, Types, ClientTypes, NetworkTypes
<1>1. /\ toClient[client] # <<>> /\ toClient' = [toClient EXCEPT ![client] = Tail(@)]
      /\ UNCHANGED <<file, log, authority, tail, stray, waiting, outcomes>>
      /\ UNCHANGED toServer \/ toServer' = [toServer EXCEPT ![client] = @ \o waiting[client]]
  BY DEF WelcomeArrives, EntriesArrive, serverVars, Resent
<1>2. \A other \in Clients : Range(toClient'[other]) \subseteq Range(toClient[other])
  BY <1>0, <1>1, RangeOfTail
<1>3. toServer[client] \in Seq(Requests) /\ waiting[client] \in Seq(Requests)
  BY <1>0
<1>4. Range(toServer[client] \o waiting[client]) = Range(toServer[client]) \cup Range(waiting[client])
  BY <1>3, RangeOfJoin
<1>5. \A other \in Clients : Range(toServer'[other]) \subseteq Range(toServer[other]) \cup Range(waiting'[other])
  BY <1>0, <1>1, <1>4
<1>6. \A request \in Requests : IsWaiting(request)' <=> IsWaiting(request)
  BY <1>1 DEF IsWaiting
<1>7. \A request \in Requests : IsUnderway(request)' => IsUnderway(request) \/ IsWaiting(request)'
  BY <1>1, <1>5 DEF IsUnderway, IsWaiting
<1>8. QED
  BY <1>1, <1>2, <1>6, <1>7, SingularUntouched

LEMMA SingularOutcomeArrives ==
  ASSUME Base, FileFollows, Singular, NEW client \in Clients, OutcomeArrives(client)
  PROVE  Singular'
<1> DEFINE answer == Head(toClient[client])
           left == Kept(waiting[client], Requests \ {answer.request})
<1>0. /\ toClient \in [Clients -> Seq(Frame)] /\ waiting \in [Clients -> Seq(Requests)]
      /\ outcomes \in [Requests -> {Unanswered} \cup Told] /\ log \in Seq(Entry) /\ file \in Seq(Entry)
      /\ authority.remembered \in Seq(Past)
  BY DEF Base, Types, ServerTypes, ClientTypes, NetworkTypes, Authority
<1>1. /\ toClient[client] # <<>> /\ answer.kind = "outcome"
      /\ waiting' = [waiting EXCEPT ![client] = left]
      /\ outcomes' = IF answer.request \in Range(waiting[client])
                     THEN [outcomes EXCEPT ![answer.request] = answer.told] ELSE outcomes
      /\ toClient' = [toClient EXCEPT ![client] = Tail(@)]
      /\ UNCHANGED <<file, log, authority, tail, stray, toServer>>
  BY DEF OutcomeArrives, serverVars
<1>2. answer \in Range(toClient[client]) /\ answer \in Frame
      /\ \A other \in Clients : Range(toClient'[other]) \subseteq Range(toClient[other])
  BY <1>0, <1>1, RangeOfTail
<1>3. answer.request \in Requests
  BY <1>1, <1>2 DEF Frame, Welcome
<1>4. Range(left) = Range(waiting[client]) \ {answer.request}
  <2>1. waiting[client] \in Seq(Requests) /\ Range(waiting[client]) \subseteq Requests
    BY <1>0, RangeIsIn
  <2>2. Range(left) = Range(waiting[client]) \cap (Requests \ {answer.request})
    BY <2>1, RangeOfKept
  <2>3. QED
    BY <2>1, <2>2
<1> HIDE DEF left, answer
<1>5. \A other \in Clients : Range(waiting'[other]) \subseteq Range(waiting[other])
  BY <1>0, <1>1, <1>4
<1>6. \A request \in Requests :
        request = answer.request /\ request \in Range(waiting[client]) => ~ IsWaiting(request)'
  <2>1. ASSUME NEW request \in Requests, request = answer.request, request \in Range(waiting[client]),
               NEW other \in Clients, request \in Range(waiting'[other])
        PROVE  FALSE
    <3>1. ClientOf[request] = client /\ ClientOf[request] = other
      BY <1>5, <2>1 DEF Base, OwnRequests
    <3>2. Range(waiting'[other]) = Range(left)
      BY <1>0, <1>1, <3>1
    <3>3. QED
      BY <1>4, <2>1, <3>2
  <2>2. QED
    BY <2>1 DEF IsWaiting
<1>7. loaded
  BY <1>1 DEF Base, QuietUnlessConnected, EmptyUnlessLoaded
<1>8. ASSUME NEW request \in Requests, RefusedIn(authority.remembered, request)
      PROVE  Absent(request, file)
  <2>1. Absent(request, log)
    BY <1>8 DEF Singular, RemembersOnce, RefusedIn
  <2>2. log = file \/ log = Append(file, Last(log))
    BY <1>7 DEF FileFollows
  <2>3. \A i \in DOMAIN file : i \in DOMAIN log /\ log[i] = file[i]
    <3>1. CASE log = Append(file, Last(log))
      <4>1. \A last : \A i \in DOMAIN file : i \in DOMAIN Append(file, last) /\ Append(file, last)[i] = file[i]
        BY <1>0
      <4>2. QED
        BY <3>1, <4>1
    <3>2. QED
      BY <2>2, <3>1
  <2>4. QED
    BY <2>1, <2>3 DEF Absent
<1>9. ASSUME NEW request \in Requests, SaysRefused(outcomes'[request])
      PROVE  RefusalStands(request)'
  <2>1. CASE request = answer.request /\ answer.request \in Range(waiting[client])
    <3>1. outcomes'[request] = answer.told
      BY <1>0, <1>1, <2>1
    <3>2. Refuses(answer)
      BY <1>1, <1>9, <3>1 DEF Refuses
    <3>3. RefusedIn(authority.remembered, request)
      BY <1>2, <2>1, <3>2 DEF Singular, RefusalsStand
    <3>4. QED
      BY <1>1, <1>6, <1>8, <2>1, <3>3 DEF RefusalStands
  <2>2. CASE ~ (request = answer.request /\ answer.request \in Range(waiting[client]))
    <3>1. outcomes'[request] = outcomes[request]
      BY <1>0, <1>1, <2>2
    <3>2. RefusalStands(request)
      BY <1>9, <3>1 DEF Singular, RefusalsStand
    <3>3. ~ IsWaiting(request)'
      BY <1>5, <3>2 DEF RefusalStands, IsWaiting
    <3>4. IsUnderway(request)' <=> IsUnderway(request)
      BY <1>1 DEF IsUnderway
    <3>5. QED
      BY <1>1, <3>2, <3>3, <3>4 DEF RefusalStands
  <2>3. QED
    BY <2>1, <2>2
<1>10. RefusalsStand'
  BY <1>1, <1>2, <1>9 DEF Singular, RefusalsStand
<1>11. QED
  BY <1>1, <1>10 DEF Singular

LEMMA SingularConnect ==
  ASSUME RoomForEveryRequest, Base, Singular, NEW client \in Clients, Connect(client)
  PROVE  Singular'
<1> DEFINE sent == <<Welcome, EntriesFrame(Following(log', replica[client].sequence))>>
<1>0. toClient \in [Clients -> Seq(Frame)] /\ file \in Seq(Entry)
  BY DEF Base, Types, ServerTypes, NetworkTypes
<1>1. /\ toClient' = [toClient EXCEPT ![client] = sent]
      /\ log' = (IF loaded THEN log ELSE file)
      /\ authority' = IF loaded THEN authority ELSE AuthorityFromLog(file)
      /\ UNCHANGED <<file, tail, waiting, outcomes, toServer, stray>>
  BY DEF Connect
<1>2. \A frame \in Range(sent) : ~ Refuses(frame)
  BY DEF Range, Refuses, Welcome, EntriesFrame
<1> HIDE DEF sent
<1>3. \A other \in Clients : \A frame \in Range(toClient'[other]) : Refuses(frame) => frame \in Range(toClient[other])
  BY <1>0, <1>1, <1>2
<1>4. \A request \in Requests : IsWaiting(request)' = IsWaiting(request) /\ IsUnderway(request)' = IsUnderway(request)
  BY <1>1 DEF IsWaiting, IsUnderway
<1>5. CASE loaded
  BY <1>1, <1>3, <1>4, <1>5, SingularUntouched
<1>6. CASE ~ loaded
  <2>1. Once(file) /\ RemembersOnce(authority'.remembered, log')
    BY <1>0, <1>1, <1>6, LoadRemembersOnce DEF Singular
  <2>2. \A request \in Requests : ~ IsUnderway(request)
    <3>1. /\ tail = <<>> /\ Range(<<>>) = {}
          /\ \A other \in Clients : stray[other] = <<>> /\ toServer[other] = <<>>
      BY <1>6 DEF Base, EmptyUnlessLoaded, QuietUnlessConnected, Range
    <3>2. QED
      BY <3>1 DEF IsUnderway
  <2>3. \A other \in Clients : Range(toClient[other]) = {}
    BY <1>6 DEF Base, EmptyUnlessLoaded, QuietUnlessConnected, Range
  <2>4. \A request \in Requests : SaysRefused(outcomes'[request]) => RefusalStands(request)'
    <3>1. ASSUME NEW request \in Requests, SaysRefused(outcomes'[request])
          PROVE  RefusalStands(request)'
      <4>1. ~ IsWaiting(request) /\ Absent(request, file)
        BY <1>1, <3>1 DEF Singular, RefusalsStand, RefusalStands
      <4>2. QED
        BY <1>1, <1>4, <1>6, <2>2, <4>1 DEF RefusalStands
    <3>2. QED
      BY <3>1
  <2>5. RefusalsStand'
    BY <1>3, <2>3, <2>4 DEF RefusalsStand
  <2>6. QED
    BY <1>1, <1>6, <2>1, <2>5 DEF Singular
<1>7. QED
  BY <1>5, <1>6

LEMMA SingularLose ==
  ASSUME Base, Singular, NEW client \in Clients, Drop(client) \/ Stop(client)
  PROVE  Singular'
<1>0. /\ toClient \in [Clients -> Seq(Frame)] /\ toServer \in [Clients -> Seq(Requests)] /\ tail \in Seq(Item)
      /\ stray \in [Clients -> Seq(Requests)] /\ waiting \in [Clients -> Seq(Requests)]
  BY DEF Base, Types, ServerTypes, ClientTypes, NetworkTypes
<1>1. /\ toClient' = [toClient EXCEPT ![client] = <<>>] /\ toServer' = [toServer EXCEPT ![client] = <<>>]
      /\ stray' = [stray EXCEPT ![client] = @ \o toServer[client]] /\ tail' = Unheard(tail, client)
      /\ \A request \in Requests : outcomes'[request] = outcomes[request] \/ outcomes'[request] = Stopped
      /\ \A other \in Clients : waiting'[other] = waiting[other] \/ waiting'[other] = <<>>
      /\ UNCHANGED <<file, log, authority>>
  BY <1>0 DEF Drop, Stop, Lose
<1>2. Range(<<>>) = {}
  BY DEF Range
<1>3. toServer[client] \in Seq(Requests) /\ stray[client] \in Seq(Requests)
  BY <1>0
<1>4. Range(stray[client] \o toServer[client]) = Range(stray[client]) \cup Range(toServer[client])
  BY <1>3, RangeOfJoin
<1>5. \A other \in Clients :
        /\ Range(toServer'[other]) \cup Range(stray'[other]) \subseteq Range(toServer[other]) \cup Range(stray[other])
        /\ Range(waiting'[other]) \subseteq Range(waiting[other])
        /\ Range(toClient'[other]) \subseteq Range(toClient[other])
  BY <1>0, <1>1, <1>2, <1>4
<1>6. \A item \in Range(tail') : \E past \in Range(tail) : item.request = past.request
  BY <1>0, <1>1, UnheardItems
<1>7. \A request \in Requests : /\ IsWaiting(request)' => IsWaiting(request)
                                /\ IsUnderway(request)' => IsUnderway(request)
  BY <1>5, <1>6 DEF IsWaiting, IsUnderway
<1>8. \A request \in Requests : SaysRefused(outcomes'[request]) => outcomes'[request] = outcomes[request]
  BY <1>1 DEF SaysRefused, Stopped
<1>9. QED
  BY <1>1, <1>5, <1>7, <1>8, SingularUntouched

LEMMA SingularReceives ==
  ASSUME Base, Singular, NEW client \in Clients, Arrives(client) \/ StrayArrives(client) \/ RefusedAtRate(client)
  PROVE  Singular'
<1>0. /\ toClient \in [Clients -> Seq(Frame)] /\ toServer \in [Clients -> Seq(Requests)] /\ tail \in Seq(Item)
      /\ stray \in [Clients -> Seq(Requests)]
  BY DEF Base, Types, ServerTypes, NetworkTypes
<1>1. ASSUME Arrives(client) \/ StrayArrives(client)
      PROVE  Singular'
  <2>1. PICK item : /\ tail' = Append(tail, item) /\ item \in Item
                    /\ item.request \in Range(toServer[client]) \cup Range(stray[client])
                    /\ \A other \in Clients : /\ Range(toServer'[other]) \subseteq Range(toServer[other])
                                              /\ Range(stray'[other]) \subseteq Range(stray[other])
    <3>1. CASE Arrives(client)
      <4> DEFINE item == [client |-> client, request |-> Head(toServer[client]), heard |-> TRUE]
      <4>1. /\ toServer[client] # <<>> /\ toServer[client] \in Seq(Requests) /\ tail' = Append(tail, item)
            /\ toServer' = [toServer EXCEPT ![client] = Tail(@)] /\ UNCHANGED stray
        BY <1>0, <3>1 DEF Arrives
      <4>2. /\ Head(toServer[client]) \in Requests /\ Head(toServer[client]) \in Range(toServer[client])
            /\ Range(Tail(toServer[client])) \subseteq Range(toServer[client])
        BY <4>1, RangeOfTail
      <4>3. item \in Item /\ item.request = Head(toServer[client])
        BY <4>2 DEF Item
      <4> HIDE DEF item
      <4>4. QED
        BY <1>0, <4>1, <4>2, <4>3
    <3>2. CASE StrayArrives(client)
      <4> DEFINE item == [client |-> client, request |-> Head(stray[client]), heard |-> FALSE]
      <4>1. /\ stray[client] # <<>> /\ stray[client] \in Seq(Requests) /\ tail' = Append(tail, item)
            /\ stray' = [stray EXCEPT ![client] = Tail(@)] /\ UNCHANGED toServer
        BY <1>0, <3>2 DEF StrayArrives
      <4>2. /\ Head(stray[client]) \in Requests /\ Head(stray[client]) \in Range(stray[client])
            /\ Range(Tail(stray[client])) \subseteq Range(stray[client])
        BY <4>1, RangeOfTail
      <4>3. item \in Item /\ item.request = Head(stray[client])
        BY <4>2 DEF Item
      <4> HIDE DEF item
      <4>4. QED
        BY <1>0, <4>1, <4>2, <4>3
    <3>3. QED
      BY <1>1, <3>1, <3>2
  <2>2. UNCHANGED <<file, log, authority, waiting, outcomes, toClient>>
    BY <1>1 DEF Arrives, StrayArrives, clientVars
  <2>3. Range(tail') = Range(tail) \cup {item}
    BY <1>0, <2>1, RangeOfAppend
  <2>4. \A request \in Requests : IsWaiting(request)' = IsWaiting(request)
    BY <2>2 DEF IsWaiting
  <2>5. \A request \in Requests : IsUnderway(request)' => IsUnderway(request)
    BY <2>1, <2>3 DEF IsUnderway
  <2>6. QED
    BY <2>2, <2>4, <2>5, SingularUntouched
<1>2. ASSUME RefusedAtRate(client)
      PROVE  Singular'
  <2> DEFINE frame == OutcomeFrame(Head(toServer[client]), RateLimited)
  <2>1. /\ toServer[client] # <<>> /\ toServer[client] \in Seq(Requests) /\ toClient[client] \in Seq(Frame)
        /\ toClient' = [toClient EXCEPT ![client] = Append(@, frame)]
        /\ toServer' = [toServer EXCEPT ![client] = Tail(@)]
        /\ UNCHANGED <<file, log, authority, tail, waiting, outcomes, stray>>
    BY <1>0, <1>2 DEF RefusedAtRate, serverVars, clientVars
  <2>2. Head(toServer[client]) \in Requests /\ Range(Tail(toServer[client])) \subseteq Range(toServer[client])
    BY <2>1, RangeOfTail
  <2>3. frame \in Frame /\ ~ Refuses(frame)
    BY <2>2 DEF Frame, OutcomeFrame, Told, Refuses, SaysRefused, RateLimited
  <2> HIDE DEF frame
  <2>4. Range(Append(toClient[client], frame)) = Range(toClient[client]) \cup {frame}
    BY <2>1, <2>3, RangeOfAppend
  <2>5. \A other \in Clients : \A some \in Range(toClient'[other]) : Refuses(some) => some \in Range(toClient[other])
    BY <1>0, <2>1, <2>3, <2>4
  <2>6. \A other \in Clients : Range(toServer'[other]) \subseteq Range(toServer[other])
    BY <1>0, <2>1, <2>2
  <2>7. \A request \in Requests : IsWaiting(request)' = IsWaiting(request) /\ (IsUnderway(request)' => IsUnderway(request))
    BY <2>1, <2>6 DEF IsWaiting, IsUnderway
  <2>8. QED
    BY <2>1, <2>5, <2>7, SingularUntouched
<1>3. QED
  BY <1>1, <1>2

LEMMA SingularDecides ==
  ASSUME RoomForEveryRequest, Base, Singular, DecideNext
  PROVE  Singular'
<1> DEFINE item == Head(tail)
           request == item.request
           actor == PersonOf[item.client]
           remembered == authority.remembered
<1>1. /\ tail # <<>> /\ tail' = Tail(tail) /\ UNCHANGED <<file, waiting, outcomes, toServer, stray>>
      /\ \/ AnswersBefore(item)
         \/ AnswersAgainst(item)
         \/ \E entry \in Entry : Enters(item, entry)
  BY DecideNextCases
<1>2. /\ item \in Item /\ OwnItem(item) /\ request \in Requests /\ actor \in People /\ item \in Range(tail)
      /\ Range(tail') \subseteq Range(tail) /\ actor = AuthorOf(request)
  BY <1>1, FirstItem DEF AuthorOf
<1>3. /\ toClient \in [Clients -> Seq(Frame)] /\ remembered \in Seq(Past) /\ log \in Seq(Entry)
      /\ \A i \in DOMAIN remembered : remembered[i] \in Past
  <2>1. toClient \in [Clients -> Seq(Frame)] /\ remembered \in Seq(Past) /\ log \in Seq(Entry)
    BY DEF Base, Types, ServerTypes, NetworkTypes, Authority
  <2> HIDE DEF remembered
  <2>2. \A i \in DOMAIN remembered : remembered[i] \in Past
    BY <2>1
  <2>3. QED
    BY <2>1, <2>2
<1>4. Once(log) /\ RemembersOnce(remembered, log) /\ RefusalsStand
  BY DEF Singular
<1> HIDE DEF item
<1>a. \A other \in Requests : /\ IsWaiting(other)' = IsWaiting(other)
                              /\ IsUnderway(other)' => IsUnderway(other)
  BY <1>1, <1>2 DEF IsWaiting, IsUnderway
<1>b. IsUnderway(request)
  BY <1>2 DEF IsUnderway
<1>5. ASSUME NotAnswered(item)
      PROVE  \A i \in DOMAIN remembered : remembered[i].outcome.request # request
  <2>1. ASSUME NEW i \in DOMAIN remembered, remembered[i].outcome.request = request
        PROVE  FALSE
    <3>1. remembered[i].person = actor
      BY <1>2, <1>4, <2>1 DEF RemembersOnce
    <3>2. remembered[i] \in Range(authority.remembered)
      BY <2>1 DEF Range
    <3>3. QED
      BY <1>5, <2>1, <3>1, <3>2 DEF NotAnswered
  <2>2. QED
    BY <2>1
<1>6. ASSUME NEW outcome \in Outcome, NotAnswered(item)
      PROVE  Memory(authority, actor, outcome) = Append(remembered, [person |-> actor, outcome |-> outcome])
  <2>1. \A i, j \in DOMAIN remembered : remembered[i].outcome.request = remembered[j].outcome.request => i = j
    BY <1>4 DEF RemembersOnce
  <2>2. QED
    BY <1>2, <1>3, <1>5, <1>6, <2>1, MemoryHasRoom
<1>7. ASSUME NEW outcome \in Outcome, toClient' = Answer(toClient, item, outcome)
      PROVE  \A client \in Clients : \A frame \in Range(toClient'[client]) :
               \/ frame \in Range(toClient[client])
               \/ frame = OutcomeFrame(request, Decided(outcome))
  <2> DEFINE answer == OutcomeFrame(request, Decided(outcome))
  <2>1. answer \in Frame
    BY <1>2, <1>7 DEF OutcomeFrame, Frame, Told, Decided
  <2> HIDE DEF answer
  <2>2. ASSUME NEW client \in Clients
        PROVE  Range(toClient'[client]) \subseteq Range(toClient[client]) \cup {answer}
    <3>1. toClient'[client] = toClient[client] \/ toClient'[client] = Append(toClient[client], answer)
      BY <1>2, <1>3, <1>7, Answered DEF answer
    <3>2. toClient[client] \in Seq(Frame)
      BY <1>3
    <3>3. Range(Append(toClient[client], answer)) = Range(toClient[client]) \cup {answer}
      BY <2>1, <3>2, RangeOfAppend
    <3>4. QED
      BY <3>1, <3>3
  <2>3. QED
    BY <2>2 DEF answer
<1>8. CASE AnswersBefore(item)
  <2>1. PICK past \in Range(remembered) : past.outcome.request = request /\ toClient' = Answer(toClient, item, past.outcome)
    BY <1>8 DEF AnswersBefore
  <2>2. past.outcome \in Outcome /\ UNCHANGED <<log, authority>>
    BY <1>3, <1>8, <2>1 DEF AnswersBefore, Range, Past
  <2>3. past.outcome.applied = FALSE => RefusedIn(remembered, request)
    BY <2>1 DEF Range, RefusedIn
  <2>4. \A client \in Clients : \A frame \in Range(toClient'[client]) :
          Refuses(frame) => frame \in Range(toClient[client]) \/ RefusedIn(authority'.remembered, frame.request)
    BY <1>7, <2>1, <2>2, <2>3 DEF Refuses, SaysRefused, OutcomeFrame, Decided
  <2>5. QED
    BY <1>1, <1>a, <2>2, <2>4, SingularUntouched
<1>9. CASE AnswersAgainst(item)
  <2> DEFINE refusal == Rejected(request)
             past == [person |-> actor, outcome |-> refusal]
  <2>1. refusal \in Outcome /\ refusal.applied = FALSE /\ refusal.request = request
    BY <1>2 DEF Rejected, Outcome
  <2> HIDE DEF refusal
  <2>2. past \in Past /\ past.outcome = refusal /\ past.person = actor
    BY <1>2, <2>1 DEF Past
  <2> HIDE DEF past
  <2>3. /\ NotAnswered(item) /\ toClient' = Answer(toClient, item, refusal) /\ UNCHANGED log
        /\ authority'.remembered = Append(remembered, past)
    BY <1>6, <1>9, <2>1 DEF AnswersAgainst, refusal, past
  <2>4. RemembersOnce(authority'.remembered, log') /\ RefusedIn(authority'.remembered, request)
    BY <1>2, <1>3, <1>4, <1>5, <2>1, <2>2, <2>3, RemembersRefusalToo
  <2>5. \A other : RefusedIn(remembered, other) => RefusedIn(authority'.remembered, other)
    BY <1>3, <2>2, <2>3, RefusedInMore
  <2>6. \A client \in Clients : \A frame \in Range(toClient'[client]) :
          Refuses(frame) => frame \in Range(toClient[client]) \/ RefusedIn(authority'.remembered, frame.request)
    BY <1>7, <2>1, <2>3, <2>4 DEF Refuses, SaysRefused, OutcomeFrame, Decided
  <2>7. RefusalsStand'
    BY <1>1, <1>4, <1>a, <2>3, <2>5, <2>6, RefusalsStay
  <2>8. QED
    BY <1>1, <2>3, <2>4, <2>7 DEF Singular
<1>10. ASSUME NEW entry \in Entry, Enters(item, entry)
       PROVE  Singular'
  <2> DEFINE past == Remembered(entry)
  <2>1. /\ NotAnswered(item) /\ entry.request = request /\ entry.actor = actor /\ log' = Append(log, entry)
        /\ UNCHANGED toClient
        /\ authority'.remembered = Memory(authority, actor, past.outcome)
    BY <1>10 DEF Enters
  <2>2. past \in Past /\ past.outcome \in Outcome /\ past = [person |-> actor, outcome |-> past.outcome]
    BY <2>1 DEF Remembered, Past, Outcome, Entry
  <2>3. \A i \in DOMAIN remembered : remembered[i].outcome.request # request
    BY <1>5, <2>1
  <2>4. authority'.remembered = Append(remembered, past)
    BY <1>6, <2>1, <2>2
  <2>5. RemembersOnce(authority'.remembered, log')
    BY <1>2, <1>3, <1>4, <2>1, <2>3, <2>4, RemembersEntryToo
  <2>6. Absent(request, log)
    <3>1. past.person = AuthorOf(past.outcome.request) /\ past.outcome.request = request
      BY <1>2, <2>1 DEF Remembered
    <3> HIDE DEF past
    <3>2. QED
      BY <1>3, <1>4, <2>2, <2>3, <3>1, RemembersRefusalToo
  <2>7. /\ Once(log')
        /\ \A other : Absent(other, log) /\ other # request => Absent(other, log')
    BY <1>2, <1>3, <1>4, <2>1, <2>6, OnceAppend
  <2>8. \A other : RefusedIn(remembered, other) => RefusedIn(authority'.remembered, other)
    BY <1>3, <2>2, <2>4, RefusedInMore
  <2>9. \A other : Absent(other, log) /\ ~ IsUnderway(other) => Absent(other, log')
    BY <1>b, <2>7
  <2>10. RefusalsStand'
    BY <1>1, <1>4, <1>a, <2>1, <2>8, <2>9, RefusalsStay
  <2>11. QED
    BY <1>1, <2>5, <2>7, <2>10 DEF Singular
<1>11. QED
  BY <1>1, <1>8, <1>9, <1>10

LEMMA SingularPersisted ==
  ASSUME Base, FileFollows, Singular, Persisted
  PROVE  Singular'
<1> DEFINE entry == Last(log)
           news == EntriesFrame(<<entry>>)
           answer == OutcomeFrame(persisting[1].request, Decided(Remembered(entry).outcome))
<1>1. /\ persisting # <<>> /\ file' = Append(file, entry) /\ Announce
      /\ UNCHANGED <<log, authority, tail, waiting, outcomes, toServer, stray>>
  BY DEF Persisted, clientVars
<1>2. /\ entry \in Entry /\ loaded /\ Remembered(entry).outcome \in Outcome /\ persisting[1].request \in Requests
      /\ \A client \in Clients :
           \/ ~ Connected(client) /\ toClient'[client] = toClient[client]
           \/ /\ Connected(client)
              /\ toClient'[client] = Append(toClient[client], EntriesFrame(<<entry>>))
           \/ /\ Connected(client)
              /\ toClient'[client] = Append(Append(toClient[client], EntriesFrame(<<entry>>)),
                                            OutcomeFrame(persisting[1].request, Decided(Remembered(entry).outcome)))
  BY <1>1, Announced
<1>3. file' = log
  BY <1>1, <1>2 DEF FileFollows
<1>4. news \in Frame /\ answer \in Frame /\ ~ Refuses(news) /\ ~ Refuses(answer)
  <2>1. news \in Frame /\ answer \in Frame
    BY <1>2 DEF EntriesFrame, OutcomeFrame, Frame, Told, Decided
  <2>2. ~ Refuses(news) /\ ~ Refuses(answer)
    BY DEF EntriesFrame, OutcomeFrame, Decided, Refuses, SaysRefused, Remembered
  <2>3. QED
    BY <2>1, <2>2
<1>5. \A client \in Clients : Range(toClient'[client]) \subseteq Range(toClient[client]) \cup {news, answer}
  <2>1. ASSUME NEW client \in Clients
        PROVE  Range(toClient'[client]) \subseteq Range(toClient[client]) \cup {news, answer}
    <3> DEFINE longer == Append(toClient[client], news)
    <3>4. \/ toClient'[client] = toClient[client]
          \/ toClient'[client] = longer
          \/ toClient'[client] = Append(longer, answer)
      BY <1>2
    <3> HIDE DEF news, answer
    <3>1. toClient[client] \in Seq(Frame)
      BY DEF Base, Types, NetworkTypes
    <3>2. longer \in Seq(Frame) /\ Range(longer) = Range(toClient[client]) \cup {news}
      BY <1>4, <3>1, RangeOfAppend
    <3> HIDE DEF longer
    <3>3. Range(Append(longer, answer)) = Range(longer) \cup {answer}
      BY <1>4, <3>2, RangeOfAppend
    <3>5. QED
      BY <3>2, <3>3, <3>4
  <2>2. QED
    BY <2>1
<1> HIDE DEF news, answer, entry
<1>6. \A request \in Requests : SaysRefused(outcomes'[request]) => RefusalStands(request)'
  <2>1. ASSUME NEW request \in Requests, SaysRefused(outcomes'[request])
        PROVE  RefusalStands(request)'
    <3>1. RefusalStands(request)
      BY <1>1, <2>1 DEF Singular, RefusalsStand
    <3>2. Absent(request, log)
      BY <3>1 DEF RefusalStands, RefusedIn, Singular, RemembersOnce
    <3>3. IsWaiting(request)' = IsWaiting(request) /\ IsUnderway(request)' = IsUnderway(request)
      BY <1>1 DEF IsWaiting, IsUnderway
    <3>4. QED
      BY <1>1, <1>3, <3>1, <3>2, <3>3 DEF RefusalStands
  <2>2. QED
    BY <2>1
<1>7. RefusalsStand'
  BY <1>1, <1>4, <1>5, <1>6 DEF Singular, RefusalsStand
<1>8. QED
  BY <1>1, <1>3, <1>7 DEF Singular

LEMMA SingularEmptyRoom ==
  ASSUME Base, FileFollows, Singular, Unload \/ Crash
  PROVE  Singular'
<1>1. /\ log' = <<>> /\ authority' = AuthorityFromLog(<<>>) /\ tail' = <<>>
      /\ stray' = [client \in Clients |-> <<>>]
      /\ UNCHANGED <<waiting, outcomes>>
  BY DEF Unload, Crash, EmptyRoom, clientVars
<1>2. <<>> \in Seq(Entry) /\ Range(<<>>) = {}
  BY DEF Range
<1>3. \A client \in Clients : toServer'[client] = <<>> /\ toClient'[client] = <<>>
  BY DEF Unload, Crash, Base, QuietUnlessConnected
<1>4. file' = file \/ file' = log
  <2>1. CASE Unload
    BY <2>1 DEF Unload
  <2>2. CASE Crash
    <3>1. file' \in IF persisting = <<>> THEN {file} ELSE WithOrWithout(Last(log))
      BY <2>2 DEF Crash
    <3>2. persisting # <<>> => log = Append(file, Last(log))
      BY DEF Base, EmptyUnlessLoaded, FileFollows
    <3>3. QED
      BY <3>1, <3>2 DEF WithOrWithout
  <2>3. QED
    BY <2>1, <2>2
<1>5. \A past \in Range(authority'.remembered) : \E entry \in Range(<<>>) : past = Remembered(entry)
  BY <1>1, <1>2, LoadedAuthority
<1>6. DOMAIN authority'.remembered = {}
  BY <1>2, <1>5 DEF Range
<1>7. \A request \in Requests : ~ IsUnderway(request)' /\ IsWaiting(request)' = IsWaiting(request)
  BY <1>1, <1>2, <1>3 DEF IsUnderway, IsWaiting
<1>8. ASSUME NEW request \in Requests, SaysRefused(outcomes'[request])
      PROVE  RefusalStands(request)'
  <2>1. RefusalStands(request)
    BY <1>1, <1>8 DEF Singular, RefusalsStand
  <2>2. Absent(request, log) /\ Absent(request, file)
    BY <2>1 DEF RefusalStands, RefusedIn, Singular, RemembersOnce
  <2>3. Absent(request, <<>>)
    BY <1>6, NothingOnce
  <2>4. QED
    BY <1>1, <1>4, <1>7, <2>1, <2>2, <2>3 DEF RefusalStands
<1>9. RefusalsStand'
  BY <1>2, <1>3, <1>8 DEF RefusalsStand
<1>10. Once(log') /\ RemembersOnce(authority'.remembered, log')
  BY <1>1, <1>6, NothingOnce
<1>11. Once(file')
  BY <1>4 DEF Singular
<1>12. QED
  BY <1>9, <1>10, <1>11 DEF Singular

LEMMA OneAnswerNext ==
  ASSUME Base, Smooth, OneAnswer, [Next]_vars
  PROVE  OneAnswer'
<1>1. failures' = 0 => failures = 0
  <2>1. failures \in Nat
    BY DEF Base, Types
  <2>2. failures' = failures \/ failures' = failures + 1
    BY DEF Next, ClientNext, RoomNext, Submit, WelcomeArrives, EntriesArrive, OutcomeArrives, Connect, Drop, Stop,
           Arrives, StrayArrives, RefusedAtRate, DecideNext, Persisted, PersistFails, Retry, RetryFails, Unload,
           Crash, vars, faultVars
  <2>3. QED
    BY <2>1, <2>2
<1>2. SUFFICES ASSUME failures = 0, RoomForEveryRequest, failures' = 0
               PROVE  Singular'
  BY <1>1 DEF OneAnswer
<1>3. Singular /\ FileFollows /\ retries = {}
  BY <1>2 DEF OneAnswer, Smooth, FileFollows
<1>4. ASSUME NEW client \in Clients, ClientNext(client)
      PROVE  Singular'
  BY <1>2, <1>3, <1>4, SingularSubmit, SingularArrives, SingularOutcomeArrives, SingularConnect, SingularLose
     DEF ClientNext
<1>5. ASSUME RoomNext
      PROVE  Singular'
  <2>1. ~ PersistFails
    BY <1>2 DEF PersistFails
  <2>2. QED
    BY <1>2, <1>3, <1>5, <2>1, SingularReceives, SingularDecides, SingularPersisted, SingularEmptyRoom DEF RoomNext
<1>6. ASSUME UNCHANGED vars
      PROVE  Singular'
  <2>1. UNCHANGED <<file, log, authority, tail, waiting, outcomes, toClient, toServer, stray>>
    BY <1>6 DEF vars, serverVars, clientVars, networkVars
  <2>2. \A request \in Requests : IsWaiting(request)' = IsWaiting(request) /\ IsUnderway(request)' = IsUnderway(request)
    BY <2>1 DEF IsWaiting, IsUnderway
  <2>3. QED
    BY <1>3, <2>1, <2>2, SingularUntouched
<1>7. QED
  BY <1>4, <1>5, <1>6 DEF Next

\* While no append failed, each request has one answer among the logs, the memory of
\* outcomes, the frames and the callers.
THEOREM OneAnswerAlways == Spec => []OneAnswer
<1>1. Init => OneAnswer
  BY SingularInit DEF OneAnswer
<1>2. Base /\ Smooth /\ OneAnswer /\ [Next]_vars => OneAnswer'
  BY OneAnswerNext
<1>3. QED
  BY <1>1, <1>2, BaseAlways, SmoothAlways, PTL DEF Spec

\* No two entries answer one request, in memory or on disk (RequestOnce): a retry after a
\* reconnect or a crash never doubles a comment, while every append succeeds.
THEOREM RequestIsAppliedOnce ==
  ASSUME RoomForEveryRequest
  PROVE  Spec => []RequestOnce
<1>1. Base /\ OneAnswer => RequestOnce
  <2>1. ASSUME OneAnswer, failures = 0, NEW entries \in {log, file}
        PROVE  IsInjective([i \in DOMAIN entries |-> entries[i].request])
    <3>1. Once(entries)
      BY <2>1 DEF OneAnswer, Singular
    <3>2. QED
      BY <3>1 DEF Once, IsInjective
  <2>2. QED
    BY <2>1 DEF RequestOnce
<1>2. QED
  BY <1>1, BaseAlways, OneAnswerAlways, PTL

\* A request whose sender was told "refused" is in no log (RefusedStaysOut): the first
\* outcome stands, while every append succeeds.
THEOREM RefusedIsNeverApplied ==
  ASSUME RoomForEveryRequest
  PROVE  Spec => []RefusedStaysOut
<1>1. Base /\ OneAnswer => RefusedStaysOut
  <2>1. ASSUME Base, OneAnswer, failures = 0, NEW request \in Requests,
               outcomes[request].kind = "decided", ~ outcomes[request].outcome.applied,
               NEW entry \in Range(log) \cup Range(file)
        PROVE  entry.request # request
    <3>1. outcomes[request] \in {Unanswered} \cup Told
      BY <2>1 DEF Base, Types, ClientTypes
    <3>2. outcomes[request].outcome \in Outcome
      BY <2>1, <3>1 DEF Told, Unanswered, RateLimited, Stopped
    <3>3. outcomes[request].outcome.applied = FALSE
      BY <2>1, <3>2 DEF Outcome
    <3>4. RefusalStands(request) /\ RemembersOnce(authority.remembered, log)
      BY <2>1, <3>3 DEF OneAnswer, Singular, RefusalsStand, SaysRefused
    <3>5. Absent(request, log) /\ Absent(request, file)
      BY <3>4 DEF RefusalStands, RefusedIn, RemembersOnce
    <3>6. QED
      BY <2>1, <3>5 DEF Absent, Range
  <2>2. QED
    BY <2>1 DEF RefusedStaysOut
<1>2. QED
  BY <1>1, BaseAlways, OneAnswerAlways, PTL

-----------------------------------------------------------------------------
\* Replicas.

\* A snapshot is what the room had after some of its entries.
Follows(snapshot, history) ==
  /\ snapshot.sequence <= Len(history)
  /\ snapshot = Fold(SubSeq(history, 1, snapshot.sequence))

\* Consecutive entries of the history.
Run(entries, history) ==
  \A k \in 1 .. Len(entries) :
    /\ entries[k].sequence \in 1 .. Len(history) /\ entries[k] = history[entries[k].sequence]
    /\ k # 1 => entries[k].sequence = entries[k - 1].sequence + 1

HasEntry(frame, sequence) == frame.kind = "entries" /\ \E entry \in Range(frame.entries) : entry.sequence >= sequence

\* A client that knows `known` knows the entry `sequence`, or one of its first n frames brings it, or a later one.
Reaches(known, frames, n, sequence) == sequence <= known \/ \E j \in 1 .. n : HasEntry(frames[j], sequence)

\* What a client is about to receive goes on, without a gap, from what it knows by then.
Joins(known, frames, history, i) ==
  frames[i].kind = "entries" =>
    /\ Run(frames[i].entries, history)
    /\ frames[i].entries # <<>> => Reaches(known, frames, i - 1, frames[i].entries[1].sequence - 1)

InOrder(known, frames, history) == \A i \in 1 .. Len(frames) : Joins(known, frames, history, i)

\* A client in step with the room: connected, it has what is on disk, or is about to receive it.
InStep(snapshot, frames, history, stored, connected) ==
  /\ Follows(snapshot, history)
  /\ InOrder(snapshot.sequence, frames, history)
  /\ connected => Reaches(snapshot.sequence, frames, Len(frames), stored)

Follow ==
  crashes = 0 /\ failures = 0 =>
    \A client \in Clients :
      InStep(replica[client], toClient[client], History, Len(file), Connected(client))

\* One entry more changes nothing of what was.
LEMMA FollowsMore ==
  ASSUME NEW history \in Seq(Entry), NEW entry \in Entry, NEW snapshot, snapshot.sequence \in Nat,
         Follows(snapshot, history)
  PROVE  Follows(snapshot, Append(history, entry))
<1> DEFINE n == snapshot.sequence
           longer == Append(history, entry)
<1>1. n \in 0 .. Len(history) /\ snapshot = Fold(SubSeq(history, 1, n))
  BY DEF Follows
<1>2. Len(longer) = Len(history) + 1 /\ Len(history) \in Nat
  OBVIOUS
<1> HIDE DEF n
<1>3. SubSeq(longer, 1, n) = SubSeq(history, 1, n)
  BY <1>1, PrefixOfAppend
<1> HIDE DEF longer
<1>4. n <= Len(longer)
  BY <1>1, <1>2
<1>5. snapshot = Fold(SubSeq(longer, 1, n))
  BY <1>1, <1>3
<1>6. QED
  BY <1>4, <1>5 DEF Follows, n, longer

LEMMA RunMore ==
  ASSUME NEW history \in Seq(Entry), NEW entry \in Entry, NEW entries, Run(entries, history)
  PROVE  Run(entries, Append(history, entry))
<1> DEFINE longer == Append(history, entry)
<1>1. /\ Len(longer) = Len(history) + 1 /\ Len(history) \in Nat
      /\ \A i \in 1 .. Len(history) : longer[i] = history[i]
  OBVIOUS
<1> HIDE DEF longer
<1>2. 1 .. Len(history) \subseteq 1 .. Len(longer)
  BY <1>1
<1>3. Run(entries, longer)
  BY <1>1, <1>2 DEF Run
<1>4. QED
  BY <1>3 DEF longer

LEMMA InStepMore ==
  ASSUME NEW history \in Seq(Entry), NEW entry \in Entry, NEW snapshot, snapshot.sequence \in Nat,
         NEW frames, NEW stored, NEW connected,
         InStep(snapshot, frames, history, stored, connected)
  PROVE  InStep(snapshot, frames, Append(history, entry), stored, connected)
<1>1. Follows(snapshot, Append(history, entry))
  BY FollowsMore DEF InStep
<1>2. InOrder(snapshot.sequence, frames, Append(history, entry))
  BY RunMore DEF InStep, InOrder, Joins
<1>3. QED
  BY <1>1, <1>2 DEF InStep

\* Nothing is under way to a client without a connection.
LEMMA InStepAlone ==
  ASSUME NEW snapshot, NEW history, NEW stored, Follows(snapshot, history)
  PROVE  InStep(snapshot, <<>>, history, stored, FALSE)
BY DEF InStep, InOrder

\* A frame more.
LEMMA InOrderAppend ==
  ASSUME NEW known, NEW frames \in Seq(Frame), NEW frame \in Frame, NEW history,
         InOrder(known, frames, history),
         frame.kind = "entries" =>
           /\ Run(frame.entries, history)
           /\ frame.entries # <<>> => Reaches(known, frames, Len(frames), frame.entries[1].sequence - 1)
  PROVE  /\ InOrder(known, Append(frames, frame), history)
         /\ \A sequence : \/ Reaches(known, frames, Len(frames), sequence)
                          \/ HasEntry(frame, sequence)
              => Reaches(known, Append(frames, frame), Len(frames) + 1, sequence)
<1> DEFINE longer == Append(frames, frame)
           n == Len(frames)
<1>1. /\ n \in Nat /\ Len(longer) = n + 1 /\ longer[n + 1] = frame
      /\ \A i \in 1 .. n : longer[i] = frames[i]
  OBVIOUS
<1> HIDE DEF longer, n
<1>2. ASSUME NEW m \in 0 .. n, NEW sequence, Reaches(known, frames, m, sequence)
      PROVE  Reaches(known, longer, m, sequence)
  <2>1. \A j \in 1 .. m : j \in 1 .. n
    BY <1>1
  <2>2. QED
    BY <1>1, <1>2, <2>1 DEF Reaches
<1>3. ASSUME NEW i \in 1 .. n
      PROVE  Joins(known, longer, history, i)
  <2>1. Joins(known, frames, history, i) /\ longer[i] = frames[i] /\ i - 1 \in 0 .. n
    BY <1>1 DEF InOrder, n
  <2>2. QED
    BY <1>2, <2>1 DEF Joins
<1>4. Joins(known, longer, history, n + 1)
  <2>1. (n + 1) - 1 = n /\ n \in 0 .. n
    BY <1>1
  <2>2. QED
    BY <1>1, <1>2, <2>1 DEF Joins, n
<1>5. InOrder(known, longer, history)
  <2>1. \A i \in 1 .. n + 1 : i \in 1 .. n \/ i = n + 1
    BY <1>1
  <2>2. QED
    BY <1>1, <1>3, <1>4, <2>1 DEF InOrder
<1>6. ASSUME NEW sequence, Reaches(known, frames, n, sequence)
      PROVE  Reaches(known, longer, n + 1, sequence)
  <2>1. Reaches(known, longer, n, sequence) /\ \A j \in 1 .. n : j \in 1 .. n + 1
    BY <1>1, <1>2, <1>6
  <2>2. QED
    BY <2>1 DEF Reaches
<1>7. ASSUME NEW sequence, HasEntry(frame, sequence)
      PROVE  Reaches(known, longer, n + 1, sequence)
  <2>1. n + 1 \in 1 .. n + 1
    BY <1>1
  <2>2. QED
    BY <1>1, <1>7, <2>1 DEF Reaches
<1>8. QED
  BY <1>5, <1>6, <1>7 DEF longer, n

\* An outcome more.
LEMMA InStepAnswered ==
  ASSUME NEW frames \in Seq(Frame), NEW request, NEW told, OutcomeFrame(request, told) \in Frame,
         NEW snapshot, NEW history, NEW stored, NEW connected,
         InStep(snapshot, frames, history, stored, connected)
  PROVE  InStep(snapshot, Append(frames, OutcomeFrame(request, told)), history, stored, connected)
<1> DEFINE frame == OutcomeFrame(request, told)
           longer == Append(frames, frame)
<1>1. frame.kind # "entries" /\ frame \in Frame
  BY DEF OutcomeFrame
<1>2. Len(longer) = Len(frames) + 1
  OBVIOUS
<1> HIDE DEF frame
<1>3. /\ InOrder(snapshot.sequence, longer, history)
      /\ Reaches(snapshot.sequence, frames, Len(frames), stored)
           => Reaches(snapshot.sequence, longer, Len(frames) + 1, stored)
  BY <1>1, InOrderAppend DEF InStep
<1> HIDE DEF longer
<1>4. InStep(snapshot, longer, history, stored, connected)
  BY <1>2, <1>3 DEF InStep
<1>5. QED
  BY <1>4 DEF longer, frame

\* The history's last entry is announced once it is stored.
LEMMA InStepAnnounced ==
  ASSUME NEW frames \in Seq(Frame), NEW history \in Seq(Entry), Sound(history), NEW entry \in Entry,
         NEW snapshot, NEW stored \in Nat, Len(history) = stored + 1, entry = history[stored + 1],
         InStep(snapshot, frames, history, stored, TRUE)
  PROVE  InStep(snapshot, Append(frames, EntriesFrame(<<entry>>)), history, stored + 1, TRUE)
<1> DEFINE frame == EntriesFrame(<<entry>>)
           longer == Append(frames, frame)
<1>1. frame \in Frame /\ frame.kind = "entries" /\ frame.entries = <<entry>>
  BY DEF EntriesFrame, Frame
<1>2. entry.sequence = stored + 1
  <2>1. stored + 1 \in 1 .. Len(history)
    OBVIOUS
  <2>2. SoundAt(history, stored + 1)
    BY <2>1 DEF Sound
  <2>3. QED
    BY <2>2 DEF SoundAt
<1>3. /\ Run(<<entry>>, history) /\ <<entry>>[1].sequence - 1 = stored
      /\ \E one \in Range(<<entry>>) : one.sequence >= stored + 1
  <2>1. Len(<<entry>>) = 1 /\ <<entry>>[1] = entry /\ entry \in Range(<<entry>>)
    BY DEF Range
  <2>2. QED
    BY <1>2, <2>1 DEF Run
<1>4. Len(longer) = Len(frames) + 1
  OBVIOUS
<1>5. HasEntry(frame, stored + 1)
  BY <1>1, <1>3 DEF HasEntry
<1> HIDE DEF frame
<1>6. /\ InOrder(snapshot.sequence, longer, history)
      /\ Reaches(snapshot.sequence, longer, Len(frames) + 1, stored + 1)
  BY <1>1, <1>3, <1>5, InOrderAppend DEF InStep
<1> HIDE DEF longer
<1>7. InStep(snapshot, longer, history, stored + 1, TRUE)
  BY <1>4, <1>6 DEF InStep
<1>8. QED
  BY <1>7 DEF longer, frame

\* The first frame arrives, and the client knows its entries.
LEMMA InStepArrives ==
  ASSUME NEW frames \in Seq(Frame), frames # <<>>, NEW history, NEW stored, NEW connected,
         NEW snapshot \in Snapshot, NEW later \in Snapshot, snapshot.sequence <= later.sequence, Follows(later, history),
         stored \in Nat, \A entries : Run(entries, history) => \A k \in 1 .. Len(entries) : entries[k].sequence \in Nat,
         Head(frames).kind = "entries" =>
           \A entry \in Range(Head(frames).entries) : entry.sequence <= later.sequence /\ entry.sequence \in Nat,
         InStep(snapshot, frames, history, stored, connected)
  PROVE  InStep(later, Tail(frames), history, stored, connected)
<1> DEFINE rest == Tail(frames)
           n == Len(rest)
           one == snapshot.sequence
           other == later.sequence
<1>1. /\ n \in Nat /\ Len(frames) = n + 1 /\ frames[1] = Head(frames)
      /\ \A i \in 1 .. n : rest[i] = frames[i + 1] /\ frames[i + 1] \in Frame
  OBVIOUS
<1>2. one \in Nat /\ other \in Nat /\ one <= other
  BY DEF Snapshot
<1> HIDE DEF rest, n, one, other
<1>3. ASSUME NEW m \in 0 .. n, NEW sequence \in Int, Reaches(one, frames, m + 1, sequence)
      PROVE  Reaches(other, rest, m, sequence)
  <2>1. CASE sequence <= one
    <3>1. sequence <= other
      BY <1>2, <2>1
    <3>2. QED
      BY <3>1 DEF Reaches
  <2>2. ASSUME NEW j \in 1 .. m + 1, HasEntry(frames[j], sequence)
        PROVE  Reaches(other, rest, m, sequence)
    <3>1. CASE j = 1
      <4>1. PICK entry \in Range(Head(frames).entries) : entry.sequence >= sequence
        BY <1>1, <2>2, <3>1 DEF HasEntry
      <4>2. Head(frames).kind = "entries"
        BY <1>1, <2>2, <3>1 DEF HasEntry
      <4>3. entry.sequence <= other /\ entry.sequence \in Nat
        BY <4>2 DEF other
      <4>4. sequence <= other
        BY <1>2, <4>1, <4>3
      <4>5. QED
        BY <4>4 DEF Reaches
    <3>2. CASE j # 1
      <4>1. j - 1 \in 1 .. m /\ j - 1 \in 1 .. n /\ (j - 1) + 1 = j
        BY <1>1, <3>2
      <4>2. rest[j - 1] = frames[j]
        BY <1>1, <4>1
      <4>3. HasEntry(rest[j - 1], sequence)
        BY <2>2, <4>2
      <4>4. QED
        BY <4>1, <4>3 DEF Reaches
    <3>3. QED
      BY <3>1, <3>2
  <2>3. QED
    BY <1>3, <2>1, <2>2 DEF Reaches
<1>4. ASSUME NEW i \in 1 .. n
      PROVE  Joins(other, rest, history, i)
  <2>1. /\ rest[i] = frames[i + 1] /\ i + 1 \in 1 .. Len(frames) /\ (i + 1) - 1 = i
        /\ i - 1 \in 0 .. n /\ (i - 1) + 1 = i
    BY <1>1
  <2>2. Joins(one, frames, history, i + 1)
    BY <2>1 DEF InStep, InOrder, one
  <2>3. ASSUME rest[i].kind = "entries", rest[i].entries # <<>>
        PROVE  Reaches(other, rest, i - 1, rest[i].entries[1].sequence - 1)
    <3>1. Run(rest[i].entries, history) /\ Reaches(one, frames, i, rest[i].entries[1].sequence - 1)
      BY <2>1, <2>2, <2>3 DEF Joins
    <3>2. rest[i].entries \in Seq(Entry)
      BY <1>1, <2>1, <2>3 DEF Frame, Welcome
    <3>3. 1 \in 1 .. Len(rest[i].entries)
      BY <2>3, <3>2
    <3>4. rest[i].entries[1].sequence - 1 \in Int
      BY <3>1, <3>3
    <3>5. QED
      BY <1>3, <2>1, <3>1, <3>4
  <2>4. QED
    BY <2>1, <2>2, <2>3 DEF Joins
<1>5. connected => Reaches(other, rest, n, stored)
  <2>1. n \in 0 .. n /\ stored \in Int
    BY <1>1
  <2>2. connected => Reaches(one, frames, n + 1, stored)
    BY <1>1 DEF InStep, one
  <2>3. QED
    BY <1>3, <2>1, <2>2
<1>6. QED
  BY <1>4, <1>5 DEF InStep, InOrder, rest, n, other
\* What a client that knows `known` lacks of the room's log is its entries after that number.
LEMMA FollowingIs ==
  ASSUME NEW entries \in Seq(Entry), Sound(entries), NEW known \in 0 .. Len(entries)
  PROVE  /\ Len(Following(entries, known)) = Len(entries) - known
         /\ \A k \in 1 .. Len(entries) - known : Following(entries, known)[k] = entries[known + k]
<1> DEFINE wanted == {entry \in Range(entries) : entry.sequence > known}
           n == Len(entries)
           part(m) == Kept(SubSeq(entries, 1, m), wanted)
           size(m) == IF m > known THEN m - known ELSE 0
           Good(m) == Len(part(m)) = size(m) /\ \A k \in 1 .. size(m) : part(m)[k] = entries[known + k]
           S == {m \in Nat : m <= n => Good(m)}
<1>1. n \in Nat /\ known \in Nat /\ known <= n
  OBVIOUS
<1>2. 0 \in S
  <2>1. SubSeq(entries, 1, 0) = <<>>
    BY <1>1, PrefixFacts
  <2>2. part(0) = <<>>
    BY <2>1, KeptOfNothing
  <2>3. size(0) = 0
    BY <1>1
  <2>4. Good(0)
    BY <2>2, <2>3
  <2>5. QED
    BY <2>4
<1>3. ASSUME NEW m \in Nat, m \in S
      PROVE  m + 1 \in S
  <2>1. ASSUME m + 1 <= n
        PROVE  Good(m + 1)
    <3> DEFINE before == part(m)
               next == entries[m + 1]
    <3>1. m < Len(entries) /\ m \in 0 .. Len(entries) /\ m + 1 \in 1 .. Len(entries) /\ next \in Entry
      BY <2>1
    <3>2. SubSeq(entries, 1, m) \in Seq(Entry) /\ SubSeq(entries, 1, m + 1) = Append(SubSeq(entries, 1, m), next)
      BY <3>1, PrefixFacts, NextPrefix
    <3>3. next.sequence = m + 1 /\ next \in Range(entries)
      <4>1. SoundAt(entries, m + 1) /\ m + 1 \in DOMAIN entries
        BY <3>1 DEF Sound
      <4>2. QED
        BY <4>1 DEF SoundAt, Range
    <3>4. part(m + 1) = IF next \in wanted THEN Append(before, next) ELSE before
      <4> DEFINE shorter == SubSeq(entries, 1, m)
      <4> HIDE DEF wanted, next
      <4>1. shorter \in Seq(Entry) /\ next \in Entry
        BY <3>1, <3>2
      <4>2. part(m + 1) = Kept(Append(shorter, next), wanted)
        BY <3>2
      <4> HIDE DEF shorter, part
      <4>3. Kept(Append(shorter, next), wanted) = IF next \in wanted THEN Append(Kept(shorter, wanted), next) ELSE Kept(shorter, wanted)
        BY <4>1, KeptOfAppend
      <4>4. before = Kept(shorter, wanted)
        BY DEF shorter, part
      <4> HIDE DEF before
      <4>5. QED
        BY <4>2, <4>3, <4>4
    <3>5. next \in wanted <=> m + 1 > known
      BY <3>3
    <3>6. before \in Seq(Entry)
      <4> HIDE DEF wanted
      <4>1. QED
        BY <3>2, KeptElements
    <3>7. Len(before) = size(m) /\ \A k \in 1 .. size(m) : before[k] = entries[known + k]
      BY <1>3, <3>1
    <3> HIDE DEF part, wanted
    <3>8. CASE m + 1 > known
      <4>1. size(m) = m - known /\ size(m + 1) = m + 1 - known /\ m - known \in Nat
        BY <1>1, <3>8
      <4>2. part(m + 1) = Append(before, next)
        BY <3>4, <3>5, <3>8
      <4> HIDE DEF before, next, size
      <4>3. /\ Len(Append(before, next)) = Len(before) + 1 /\ Append(before, next)[Len(before) + 1] = next
            /\ \A k \in 1 .. Len(before) : Append(before, next)[k] = before[k]
        BY <3>1, <3>6
      <4>4. ASSUME NEW k \in 1 .. size(m + 1)
            PROVE  part(m + 1)[k] = entries[known + k]
        <5>1. k \in 1 .. size(m) \/ (k = size(m) + 1 /\ known + k = m + 1)
          BY <1>1, <4>1
        <5>2. CASE k \in 1 .. size(m)
          BY <3>7, <4>2, <4>3, <5>2
        <5>3. CASE k = size(m) + 1 /\ known + k = m + 1
          BY <3>7, <4>2, <4>3, <5>3 DEF next
        <5>4. QED
          BY <5>1, <5>2, <5>3
      <4>5. Len(part(m + 1)) = size(m + 1)
        BY <1>1, <3>7, <4>1, <4>2, <4>3
      <4>6. QED
        BY <4>4, <4>5
    <3>9. CASE ~ (m + 1 > known)
      <4>1. size(m) = 0 /\ size(m + 1) = 0
        BY <1>1, <3>9
      <4>2. part(m + 1) = before
        BY <3>4, <3>5, <3>9
      <4> HIDE DEF before, size
      <4>3. QED
        BY <3>7, <4>1, <4>2
    <3>10. QED
      BY <3>8, <3>9
  <2>2. QED
    BY <2>1
<1>4. Nat \subseteq S
  BY <1>2, <1>3, SetInduction
<1>5. Good(n)
  BY <1>1, <1>4
<1>6. SubSeq(entries, 1, n) = entries
  <2>1. n \in 0 .. Len(entries)
    BY <1>1
  <2>2. QED
    BY <2>1, PrefixFacts
<1>7. size(n) = Len(entries) - known
  BY <1>1
<1>8. part(n) = Following(entries, known)
  BY <1>6 DEF Following
<1> HIDE DEF part, size
<1>9. QED
  BY <1>5, <1>7, <1>8

\* A client that connects is told what it lacks, and is in step then.
LEMMA InStepConnected ==
  ASSUME NEW history \in Seq(Entry), Sound(history), NEW snapshot \in Snapshot, Follows(snapshot, history),
         NEW stored \in Nat, stored <= Len(history)
  PROVE  InStep(snapshot, <<Welcome, EntriesFrame(Following(history, snapshot.sequence))>>, history, stored, TRUE)
<1> DEFINE known == snapshot.sequence
           lacking == Following(history, known)
           count == Len(history) - known
           frame == EntriesFrame(lacking)
           frames == <<Welcome, frame>>
<1>1. known \in 0 .. Len(history) /\ count \in Nat /\ known \in Nat
  BY DEF Follows, Snapshot
<1>2. lacking \in Seq(Entry) /\ Len(lacking) = count /\ \A k \in 1 .. count : lacking[k] = history[known + k]
  BY <1>1, FollowingIs, FollowingType
<1>3. \A k \in 1 .. count : known + k \in 1 .. Len(history) /\ lacking[k].sequence = known + k
  <2>1. ASSUME NEW k \in 1 .. count
        PROVE  known + k \in 1 .. Len(history) /\ lacking[k].sequence = known + k
    <3>1. known + k \in 1 .. Len(history)
      BY <1>1
    <3>2. history[known + k].sequence = known + k
      BY <3>1 DEF Sound, SoundAt
    <3>3. QED
      BY <1>2, <3>1, <3>2
  <2>2. QED
    BY <2>1
<1>4. frame.kind = "entries" /\ frame.entries = lacking /\ Welcome.kind # "entries"
  BY DEF EntriesFrame, Welcome
<1>5. Len(frames) = 2 /\ frames[1] = Welcome /\ frames[2] = frame
  OBVIOUS
<1> HIDE DEF known, lacking, count, frame, frames
<1>6. Run(lacking, history)
  <2>1. ASSUME NEW k \in 1 .. Len(lacking)
        PROVE  /\ lacking[k].sequence \in 1 .. Len(history) /\ lacking[k] = history[lacking[k].sequence]
               /\ k # 1 => lacking[k].sequence = lacking[k - 1].sequence + 1
    <3>1. k \in 1 .. count /\ lacking[k].sequence = known + k /\ known + k \in 1 .. Len(history)
      BY <1>2, <1>3
    <3>2. k # 1 => k - 1 \in 1 .. count /\ known + k = (known + (k - 1)) + 1
      BY <1>1, <3>1
    <3>3. QED
      BY <1>2, <1>3, <3>1, <3>2
  <2>2. QED
    BY <2>1 DEF Run
<1>7. lacking # <<>> => Reaches(known, frames, 1, lacking[1].sequence - 1)
  <2>1. ASSUME lacking # <<>>
        PROVE  lacking[1].sequence - 1 <= known
    <3>1. 1 \in 1 .. count
      BY <1>1, <1>2, <2>1
    <3>2. QED
      BY <1>1, <1>3, <3>1
  <2>2. QED
    BY <2>1 DEF Reaches
<1>8. InOrder(known, frames, history)
  <2>1. Joins(known, frames, history, 1) /\ Joins(known, frames, history, 2)
    BY <1>4, <1>5, <1>6, <1>7 DEF Joins
  <2>2. \A i \in 1 .. 2 : i = 1 \/ i = 2
    OBVIOUS
  <2>3. QED
    BY <1>5, <2>1, <2>2 DEF InOrder
<1>9. Reaches(known, frames, 2, stored)
  <2>1. CASE count = 0
    BY <1>1, <2>1 DEF Reaches, count
  <2>2. CASE count # 0
    <3>1. count \in 1 .. count /\ known + count = Len(history)
      BY <1>1, <2>2 DEF count
    <3>2. lacking[count].sequence >= stored /\ lacking[count] \in Range(lacking)
      BY <1>2, <1>3, <3>1 DEF Range
    <3>3. HasEntry(frames[2], stored)
      BY <1>4, <1>5, <3>2 DEF HasEntry
    <3>4. QED
      BY <3>3 DEF Reaches
  <2>3. QED
    BY <2>1, <2>2
<1>10. QED
  BY <1>5, <1>8, <1>9 DEF InStep, known, frames, frame, lacking

\* What is taken of consecutive entries that go on from what is known is known then.
LEMMA TakenRun ==
  ASSUME NEW history \in Seq(Entry), Sound(history), NEW snapshot \in Snapshot, Follows(snapshot, history),
         NEW run \in Seq(Entry), Run(run, history), run # <<>> => run[1].sequence - 1 <= snapshot.sequence
  PROVE  /\ Follows(Taken(snapshot, run), history) /\ snapshot.sequence <= Taken(snapshot, run).sequence
         /\ \A entry \in Range(run) : entry.sequence \in Nat /\ entry.sequence <= Taken(snapshot, run).sequence
<1> DEFINE n == Len(run)
           known == snapshot.sequence
           at(k) == Taken(snapshot, SubSeq(run, 1, k))
           Good(k) == /\ Follows(at(k), history) /\ at(k) \in Snapshot /\ known <= at(k).sequence
                      /\ \A j \in 1 .. k : run[j].sequence <= at(k).sequence
           S == {k \in Nat : k <= n => Good(k)}
<1>1. n \in Nat /\ known \in Nat /\ DOMAIN run = 1 .. n
  BY DEF Snapshot
<1>2. 0 \in S
  <2>1. SubSeq(run, 1, 0) = <<>>
    BY <1>1, PrefixFacts
  <2>2. at(0) = snapshot
    BY <2>1, TakenOfNothing
  <2>3. Good(0)
    BY <1>1, <2>2
  <2>4. QED
    BY <2>3
<1>3. ASSUME NEW k \in Nat, k \in S
      PROVE  k + 1 \in S
  <2>1. ASSUME k + 1 <= n
        PROVE  Good(k + 1)
    <3> DEFINE before == at(k)
               next == run[k + 1]
    <3>1. k < Len(run) /\ k \in 0 .. Len(run) /\ k + 1 \in 1 .. n /\ next \in Entry
      BY <2>1
    <3>2. SubSeq(run, 1, k) \in Seq(Entry) /\ SubSeq(run, 1, k + 1) = Append(SubSeq(run, 1, k), next)
      BY <3>1, PrefixFacts, NextPrefix
    <3>3. at(k + 1) = Received(before, next)
      <4> HIDE DEF next
      <4>1. QED
        BY <3>1, <3>2, TakenOfAppend
    <3>4. /\ Follows(before, history) /\ before \in Snapshot /\ known <= before.sequence
          /\ \A j \in 1 .. k : run[j].sequence <= before.sequence
      BY <1>3, <3>1
    <3>5. before.sequence \in Nat /\ next.sequence \in Nat /\ next.sequence \in 1 .. Len(history) /\ next = history[next.sequence]
      BY <3>1, <3>4 DEF Snapshot, Entry, Run
    <3>6. next.sequence <= before.sequence + 1
      <4>1. CASE k = 0
        <5>1. run # <<>> /\ next = run[1]
          BY <3>1, <4>1
        <5>2. next.sequence - 1 <= known
          BY <5>1
        <5> HIDE DEF next, before, known
        <5>3. QED
          BY <1>1, <3>4, <3>5, <5>2
      <4>2. CASE k # 0
        <5>1. k + 1 # 1 /\ (k + 1) - 1 = k /\ k \in 1 .. k /\ k \in 1 .. n
          BY <3>1, <4>2
        <5>2. next.sequence = run[k].sequence + 1
          BY <3>1, <5>1 DEF Run
        <5>3. run[k].sequence <= before.sequence
          BY <3>4, <5>1
        <5>4. run[k].sequence \in Nat
          BY <5>1 DEF Run
        <5> HIDE DEF next, before
        <5>5. QED
          BY <3>5, <5>2, <5>3, <5>4
      <4>3. QED
        BY <4>1, <4>2
    <3>7. \A j \in 1 .. k + 1 : run[j].sequence \in Nat /\ (j \in 1 .. k \/ j = k + 1)
      <4>1. \A j \in 1 .. k + 1 : j \in 1 .. Len(run) /\ (j \in 1 .. k \/ j = k + 1)
        BY <3>1
      <4>2. QED
        BY <4>1 DEF Run
    <3> HIDE DEF at, known
    <3>8. CASE next.sequence <= before.sequence
      <4>1. at(k + 1) = before
        BY <3>3, <3>8 DEF Received
      <4>2. \A j \in 1 .. k + 1 : run[j].sequence <= at(k + 1).sequence
        BY <3>4, <3>7, <3>8, <4>1
      <4>3. QED
        BY <3>4, <4>1, <4>2
    <3>9. CASE ~ (next.sequence <= before.sequence)
      <4>1. next.sequence = before.sequence + 1
        <5> HIDE DEF next, before
        <5>1. QED
          BY <3>5, <3>6, <3>9
      <4>2. at(k + 1) = Reduce(before, next)
        BY <3>3, <3>9 DEF Received
      <4>3. at(k + 1) \in Snapshot
        BY <3>1, <3>4, <4>2, ReduceType
      <4>4. at(k + 1).sequence = before.sequence + 1
        BY <4>1, <4>2 DEF Reduce
      <4>5. Fold(SubSeq(history, 1, before.sequence + 1))
              = Reduce(Fold(SubSeq(history, 1, before.sequence)), history[before.sequence + 1])
        <5>1. before.sequence < Len(history) /\ before.sequence \in Nat
          <6> HIDE DEF next, before
          <6>1. QED
            BY <3>5, <4>1
        <5> HIDE DEF before
        <5>2. QED
          BY <5>1, FoldOfPrefix
      <4>6. Fold(SubSeq(history, 1, before.sequence)) = before
        BY <3>4 DEF Follows
      <4> HIDE DEF before, next
      <4>7. Follows(at(k + 1), history)
        BY <3>5, <4>1, <4>2, <4>4, <4>5, <4>6 DEF Follows
      <4>8. ASSUME NEW j \in 1 .. k + 1
            PROVE  run[j].sequence <= at(k + 1).sequence
        <5>1. CASE j \in 1 .. k
          BY <3>4, <3>5, <3>7, <4>4, <5>1
        <5>2. CASE j = k + 1
          BY <3>5, <4>1, <4>4, <5>2 DEF next
        <5>3. QED
          BY <3>7, <5>1, <5>2
      <4>9. known <= at(k + 1).sequence
        BY <1>1, <3>4, <3>5, <4>4 DEF known
      <4>10. QED
        BY <4>3, <4>7, <4>8, <4>9
    <3>10. QED
      BY <3>8, <3>9
  <2>2. QED
    BY <2>1
<1>4. Nat \subseteq S
  BY <1>2, <1>3, SetInduction
<1>5. Good(n)
  BY <1>1, <1>4
<1>6. SubSeq(run, 1, n) = run
  <2>1. n \in 0 .. Len(run)
    BY <1>1
  <2>2. QED
    BY <2>1, PrefixFacts
<1>7. \A j \in 1 .. n : run[j].sequence \in Nat
  BY DEF Run
<1>8. QED
  BY <1>1, <1>5, <1>6, <1>7 DEF Range
\* What follows is about a server that kept running, and appends that succeeded.
Untroubled == crashes = 0 /\ failures = 0

InStepWith(client) ==
  InStep(replica[client], toClient[client], History, Len(file), Connected(client))

LEMMA FollowUntouched ==
  ASSUME Base, Follow, UNCHANGED <<file, loaded, log, phase, replica, toClient, crashes, failures>>
  PROVE  Follow'
BY DEF Follow, History, Connected

LEMMA FollowInit ==
  ASSUME Init
  PROVE  Follow
<1>1. Len(<<>>) = 0 /\ 0 \in 0 .. Len(<<>>) /\ <<>> \in Seq(Entry)
  OBVIOUS
<1>2. SubSeq(<<>>, 1, 0) = <<>>
  BY <1>1, PrefixFacts
<1>3. Follows(EmptyDiscussion, <<>>)
  <2>1. EmptyDiscussion.sequence = 0
    BY DEF EmptyDiscussion
  <2>2. Fold(SubSeq(<<>>, 1, 0)) = Fold(<<>>)
    BY <1>2
  <2>3. 0 <= Len(<<>>)
    OBVIOUS
  <2>4. Fold(SubSeq(<<>>, 1, 0)) = EmptyDiscussion
    BY <2>2, FoldOfNothing
  <2>5. QED
    BY <2>1, <2>3, <2>4 DEF Follows
<1>4. \A client \in Clients : /\ replica[client] = EmptyDiscussion /\ toClient[client] = <<>>
                              /\ History = <<>> /\ Connected(client) = FALSE
  BY DEF Init, History, Connected
<1>5. QED
  BY <1>3, <1>4, InStepAlone DEF Follow

\* What the steps of one client leave alone.
LEMMA FollowOf ==
  ASSUME Base, Follow, NEW client \in Clients,
         UNCHANGED <<file, crashes, failures>>, Untroubled => History' = History,
         \A other \in Clients \ {client} :
           UNCHANGED <<replica[other], toClient[other], phase[other]>>,
         Untroubled => InStepWith(client)'
  PROVE  Follow'
<1>1. \A other \in Clients \ {client} : Connected(other)' = Connected(other)
  BY DEF Connected
<1>2. QED
  BY <1>1 DEF Follow, InStepWith, Untroubled

LEMMA FollowFrameArrives ==
  ASSUME Base, Smooth, Follow, NEW client \in Clients,
         WelcomeArrives(client) \/ EntriesArrive(client) \/ OutcomeArrives(client)
  PROVE  Follow'
<1> DEFINE frames == toClient[client]
           snapshot == replica[client]
           later == replica'[client]
<1>1. /\ frames # <<>> /\ toClient' = [toClient EXCEPT ![client] = Tail(frames)]
      /\ UNCHANGED <<file, loaded, log, crashes, failures>>
  BY DEF WelcomeArrives, EntriesArrive, OutcomeArrives, serverVars, faultVars
<1>2. frames \in Seq(Frame) /\ snapshot \in Snapshot /\ Len(file) \in Nat /\ History \in Seq(Entry)
  BY DEF Base, Types, ServerTypes, ClientTypes, NetworkTypes, History
<1>3. Connected(client)
  BY <1>1 DEF Base, QuietUnlessConnected
<1>4. /\ \A other \in Clients : Connected(other)' = Connected(other)
      /\ \A other \in Clients \ {client} : phase'[other] = phase[other]
  BY <1>3 DEF WelcomeArrives, EntriesArrive, OutcomeArrives, Connected, Base, Types, ClientTypes
<1>5. \A other \in Clients \ {client} : UNCHANGED <<replica[other], toClient[other]>>
  BY <1>1 DEF WelcomeArrives, EntriesArrive, OutcomeArrives, Base, Types, ClientTypes, NetworkTypes
<1>6. History' = History
  BY <1>1 DEF History
<1>7. toClient'[client] = Tail(frames)
  BY <1>1 DEF Base, Types, NetworkTypes
<1>8. ASSUME Untroubled
      PROVE  InStepWith(client)'
  <2>1. InStep(snapshot, frames, History, Len(file), TRUE) /\ Sound(History)
    BY <1>3, <1>8 DEF Follow, Untroubled, Smooth, History
  <2>2. /\ later \in Snapshot /\ snapshot.sequence <= later.sequence /\ Follows(later, History)
        /\ Head(frames).kind = "entries" =>
             \A entry \in Range(Head(frames).entries) : entry.sequence <= later.sequence /\ entry.sequence \in Nat
    <3>1. CASE EntriesArrive(client)
      <4> DEFINE run == Head(frames).entries
      <4>1. Head(frames).kind = "entries" /\ later = Taken(snapshot, run)
        BY <3>1 DEF EntriesArrive, Taken, Base, Types, ClientTypes
      <4>2. Head(frames) = frames[1] /\ 1 \in 1 .. Len(frames) /\ Head(frames) \in Frame
        BY <1>1, <1>2
      <4>3. run \in Seq(Entry)
        BY <4>1, <4>2 DEF Frame, Welcome
      <4>4. Joins(snapshot.sequence, frames, History, 1)
        BY <2>1, <4>2 DEF InStep, InOrder
      <4>5. \A sequence : Reaches(snapshot.sequence, frames, 1 - 1, sequence) => sequence <= snapshot.sequence
        <5>1. 1 .. (1 - 1) = {}
          OBVIOUS
        <5>2. QED
          BY <5>1 DEF Reaches
      <4>6. Run(run, History) /\ (run # <<>> => run[1].sequence - 1 <= snapshot.sequence)
        BY <4>1, <4>2, <4>4, <4>5 DEF Joins
      <4> HIDE DEF run, frames, snapshot, later
      <4>7. /\ Follows(Taken(snapshot, run), History) /\ snapshot.sequence <= Taken(snapshot, run).sequence
            /\ \A entry \in Range(run) : entry.sequence \in Nat /\ entry.sequence <= Taken(snapshot, run).sequence
        BY <1>2, <2>1, <4>3, <4>6, TakenRun DEF InStep
      <4>8. Taken(snapshot, run) \in Snapshot
        BY <1>2, <4>3, TakenType
      <4>9. QED
        BY <4>1, <4>7, <4>8 DEF run
    <3>2. CASE WelcomeArrives(client) \/ OutcomeArrives(client)
      <4>1. later = snapshot /\ Head(frames).kind # "entries"
        BY <3>2 DEF WelcomeArrives, OutcomeArrives, Welcome
      <4>2. snapshot.sequence <= snapshot.sequence
        BY <1>2 DEF Snapshot
      <4>3. QED
        BY <1>2, <2>1, <4>1, <4>2 DEF InStep
    <3>3. QED
      BY <3>1, <3>2
  <2>3. \A entries : Run(entries, History) => \A k \in 1 .. Len(entries) : entries[k].sequence \in Nat
    BY DEF Run
  <2> DEFINE history == History
             stored == Len(file)
  <2> HIDE DEF frames, snapshot, later, history, stored
  <2>4. InStep(later, Tail(frames), history, stored, TRUE)
    BY <1>1, <1>2, <2>1, <2>2, <2>3, InStepArrives DEF history, stored
  <2>5. Connected(client)' = TRUE
    BY <1>3, <1>4 DEF Connected
  <2>6. QED
    BY <1>1, <1>6, <1>7, <2>4, <2>5 DEF InStepWith, later, history, stored
<1>9. QED
  BY <1>1, <1>4, <1>5, <1>6, <1>8, FollowOf

LEMMA FollowConnect ==
  ASSUME Base, Smooth, Follow, NEW client \in Clients, Connect(client)
  PROVE  Follow'
<1> DEFINE snapshot == replica[client]
           history == log'
           stored == Len(file)
           frames == <<Welcome, EntriesFrame(Following(history, snapshot.sequence))>>
<1>1. /\ loaded' = TRUE /\ log' = (IF loaded THEN log ELSE file)
      /\ phase' = [phase EXCEPT ![client] = "joining"]
      /\ toClient' = [toClient EXCEPT ![client] = frames]
      /\ UNCHANGED <<file, replica, crashes, failures, persisting>>
  BY DEF Connect, faultVars
<1>2. History' = History /\ History' = log' /\ log' \in Seq(Entry) /\ snapshot \in Snapshot /\ stored \in Nat
  BY <1>1 DEF History, Base, Types, ServerTypes, ClientTypes
<1>3. \A other \in Clients \ {client} : UNCHANGED <<replica[other], toClient[other], phase[other]>>
  BY <1>1 DEF Base, Types, ClientTypes, NetworkTypes
<1>4. toClient'[client] = frames /\ replica'[client] = snapshot /\ Connected(client)' = TRUE
  BY <1>1 DEF Base, Types, ClientTypes, NetworkTypes, Connected
<1>5. ASSUME Untroubled
      PROVE  InStepWith(client)'
  <2>1. Sound(history) /\ (loaded => log = IF persisting = <<>> THEN file ELSE Append(file, Last(log)))
    BY <1>1, <1>5 DEF Smooth, FileFollows, Untroubled
  <2>2. stored <= Len(history)
    <3>1. history = file \/ (persisting # <<>> /\ history = Append(file, Last(log)))
      BY <1>1, <2>1
    <3>2. CASE persisting # <<>> /\ history = Append(file, Last(log))
      <4>1. Len(Append(file, Last(log))) = Len(file) + 1
        BY DEF Base, Types, ServerTypes
      <4>2. QED
        BY <1>2, <3>2, <4>1
    <3>3. CASE history = file
      <4>1. Len(history) = stored
        BY <3>3
      <4>2. QED
        BY <1>2, <4>1
    <3>4. QED
      BY <3>1, <3>2, <3>3
  <2>3. Follows(snapshot, history)
    BY <1>2, <1>5 DEF Follow, Untroubled, InStep
  <2> HIDE DEF snapshot, history, stored
  <2>4. InStep(snapshot, frames, history, stored, TRUE)
    BY <1>2, <2>1, <2>2, <2>3, InStepConnected DEF history
  <2> HIDE DEF frames
  <2>5. QED
    BY <1>1, <1>2, <1>4, <2>4 DEF InStepWith, history, stored
<1> HIDE DEF frames
<1>6. QED
  BY <1>1, <1>2, <1>3, <1>5, FollowOf

LEMMA FollowLose ==
  ASSUME Base, Follow, NEW client \in Clients, Drop(client) \/ Stop(client)
  PROVE  Follow'
<1>1. /\ toClient' = [toClient EXCEPT ![client] = <<>>] /\ ~ Connected(client)'
      /\ \A other \in Clients \ {client} : phase'[other] = phase[other]
      /\ UNCHANGED <<file, loaded, log, replica, crashes, failures>>
  BY DEF Drop, Stop, Lose, faultVars, Connected, Base, Types, ClientTypes
<1>2. toClient'[client] = <<>> /\ \A other \in Clients \ {client} : toClient'[other] = toClient[other]
  BY <1>1 DEF Base, Types, NetworkTypes
<1>3. History' = History
  BY <1>1 DEF History
<1>4. ASSUME Untroubled
      PROVE  InStepWith(client)'
  <2>1. Follows(replica[client], History)
    BY <1>4 DEF Follow, Untroubled, InStep
  <2>2. Connected(client)' = FALSE
    BY <1>1 DEF Connected
  <2>3. QED
    BY <1>1, <1>2, <1>3, <2>1, <2>2, InStepAlone DEF InStepWith
<1>5. QED
  BY <1>1, <1>2, <1>3, <1>4, FollowOf

\* Steps of the room.
LEMMA FollowAnswers ==
  ASSUME Base, Follow, UNCHANGED <<file, loaded, log, phase, replica, crashes, failures>>,
         \A client \in Clients :
           \/ toClient'[client] = toClient[client]
           \/ \E request, told : /\ OutcomeFrame(request, told) \in Frame
                                 /\ toClient'[client] = Append(toClient[client], OutcomeFrame(request, told))
  PROVE  Follow'
<1>1. History' = History /\ \A client \in Clients : Connected(client)' = Connected(client)
  BY DEF History, Connected
<1>2. ASSUME Untroubled, NEW client \in Clients
      PROVE  InStepWith(client)'
  <2>1. InStepWith(client) /\ toClient[client] \in Seq(Frame)
    BY <1>2 DEF Follow, InStepWith, Untroubled, Base, Types, NetworkTypes
  <2>2. InStep(replica[client], toClient'[client], History, Len(file), Connected(client))
    <3>1. CASE toClient'[client] = toClient[client]
      BY <2>1, <3>1 DEF InStepWith
    <3>2. ASSUME NEW request, NEW told, OutcomeFrame(request, told) \in Frame,
                 toClient'[client] = Append(toClient[client], OutcomeFrame(request, told))
          PROVE  InStep(replica[client], toClient'[client], History, Len(file), Connected(client))
      BY <2>1, <3>2, InStepAnswered DEF InStepWith
    <3>3. QED
      BY <3>1, <3>2
  <2>3. QED
    BY <1>1, <2>2 DEF InStepWith
<1>3. QED
  BY <1>2 DEF Follow, InStepWith, Untroubled

LEMMA FollowDecides ==
  ASSUME Base, Smooth, Follow, DecideNext
  PROVE  Follow'
<1>1. /\ tail # <<>>
      /\ UNCHANGED <<file, loaded, phase, replica, crashes, failures>>
      /\ \/ AnswersBefore(Head(tail))
         \/ AnswersAgainst(Head(tail))
         \/ \E entry \in Entry : Enters(Head(tail), entry)
  BY DecideNextCases
<1>2. Head(tail) \in Item /\ OwnItem(Head(tail)) /\ Head(tail).request \in Requests /\ loaded
  BY <1>1, FirstItem
<1>3. ASSUME NEW outcome \in Outcome, toClient' = Answer(toClient, Head(tail), outcome), UNCHANGED log
      PROVE  Follow'
  <2>1. toClient \in [Clients -> Seq(Frame)]
    BY DEF Base, Types, NetworkTypes
  <2>2. OutcomeFrame(Head(tail).request, Decided(outcome)) \in Frame
    BY <1>2, <1>3 DEF OutcomeFrame, Decided, Frame, Told
  <2>3. \A client \in Clients :
          \/ toClient'[client] = toClient[client]
          \/ toClient'[client] = Append(toClient[client], OutcomeFrame(Head(tail).request, Decided(outcome)))
    BY <1>2, <1>3, <2>1, Answered
  <2>4. QED
    BY <1>1, <1>3, <2>2, <2>3, FollowAnswers
<1>4. CASE AnswersBefore(Head(tail))
  <2>1. PICK past \in Range(authority.remembered) :
          toClient' = Answer(toClient, Head(tail), past.outcome) /\ UNCHANGED log
    BY <1>4 DEF AnswersBefore
  <2>2. past \in Past
    BY <2>1, RangeIsIn DEF Base, Types, ServerTypes, Authority
  <2>3. past.outcome \in Outcome
    BY <2>2 DEF Past
  <2>4. QED
    BY <1>3, <2>1, <2>3
<1>5. CASE AnswersAgainst(Head(tail))
  <2>1. Rejected(Head(tail).request) \in Outcome
    BY <1>2 DEF Rejected, Outcome
  <2>2. QED
    BY <1>3, <1>5, <2>1 DEF AnswersAgainst
<1>6. ASSUME NEW entry \in Entry, Enters(Head(tail), entry)
      PROVE  Follow'
  <2>1. log' = Append(log, entry) /\ toClient' = toClient /\ log \in Seq(Entry)
    BY <1>6 DEF Enters, Base, Types, ServerTypes
  <2>2. History = log /\ History' = Append(log, entry)
    BY <1>1, <1>2, <2>1 DEF History
  <2>3. \A client \in Clients : replica[client].sequence \in Nat /\ Connected(client)' = Connected(client)
    BY <1>1 DEF Connected, Base, Types, ClientTypes, Snapshot
  <2>4. ASSUME Untroubled, NEW client \in Clients
        PROVE  InStepWith(client)'
    <3>1. InStep(replica[client], toClient[client], log, Len(file), Connected(client))
      BY <2>2, <2>4 DEF Follow, Untroubled
    <3>2. InStep(replica[client], toClient[client], Append(log, entry), Len(file), Connected(client))
      BY <2>1, <2>3, <3>1, InStepMore
    <3>3. QED
      BY <1>1, <2>1, <2>2, <2>3, <3>2 DEF InStepWith
  <2>5. QED
    BY <1>1, <2>4 DEF Follow, InStepWith, Untroubled
<1>7. QED
  BY <1>1, <1>4, <1>5, <1>6

LEMMA FollowPersisted ==
  ASSUME Base, Smooth, Follow, Persisted
  PROVE  Follow'
<1>1. /\ persisting # <<>> /\ file' = Append(file, Last(log)) /\ Announce
      /\ UNCHANGED <<loaded, log, phase, replica, crashes, failures>>
  BY DEF Persisted, clientVars, faultVars
<1>2. /\ Last(log) \in Entry /\ loaded /\ persisting[1].request \in Requests
      /\ Remembered(Last(log)).outcome \in Outcome
      /\ \A client \in Clients :
           \/ ~ Connected(client) /\ toClient'[client] = toClient[client]
           \/ /\ Connected(client)
              /\ toClient'[client] = Append(toClient[client], EntriesFrame(<<Last(log)>>))
           \/ /\ Connected(client)
              /\ toClient'[client] = Append(Append(toClient[client], EntriesFrame(<<Last(log)>>)),
                                            OutcomeFrame(persisting[1].request,
                                                         Decided(Remembered(Last(log)).outcome)))
  BY <1>1, Announced
<1>3. History = log /\ History' = log /\ \A client \in Clients : Connected(client)' = Connected(client)
  BY <1>1, <1>2 DEF History, Connected
<1>4. log \in Seq(Entry) /\ file \in Seq(Entry) /\ Len(file) \in Nat
  BY DEF Base, Types, ServerTypes
<1>5. ASSUME Untroubled, NEW client \in Clients
      PROVE  InStepWith(client)'
  <2> DEFINE entry == Last(log)
             stored == Len(file)
             frames == toClient[client]
             news == EntriesFrame(<<entry>>)
             answer == OutcomeFrame(persisting[1].request, Decided(Remembered(entry).outcome))
  <2>1. log = Append(file, entry) /\ Sound(log)
    BY <1>1, <1>2, <1>5 DEF Smooth, FileFollows, Untroubled
  <2>2. InStep(replica[client], frames, log, stored, Connected(client)) /\ frames \in Seq(Frame)
    BY <1>3, <1>5 DEF Follow, Untroubled, Base, Types, NetworkTypes
  <2>3. entry \in Entry /\ stored \in Nat
    BY <1>2, <1>4
  <2>4. Len(file') = stored + 1
    BY <1>1, <1>2, <1>4
  <2>5. Len(log) = stored + 1 /\ log[stored + 1] = entry
    <3> HIDE DEF entry
    <3>1. Len(Append(file, entry)) = stored + 1 /\ Append(file, entry)[stored + 1] = entry
      BY <1>4, <2>3
    <3>2. QED
      BY <2>1, <3>1
  <2>6. answer \in Frame /\ news \in Frame
    BY <1>2 DEF OutcomeFrame, Decided, Frame, Told, EntriesFrame
  <2>7. CASE Connected(client)
    <3>1. InStep(replica[client], Append(frames, news), log, stored + 1, TRUE)
      <4>1. InStep(replica[client], frames, log, stored, TRUE)
        BY <2>2, <2>7 DEF InStep
      <4> HIDE DEF entry, stored, frames
      <4>2. QED
        BY <1>4, <2>1, <2>2, <2>3, <2>5, <4>1, InStepAnnounced
    <3>2. Append(frames, news) \in Seq(Frame)
      <4> HIDE DEF news, frames
      <4>1. QED
        BY <2>2, <2>6
    <3>3. InStep(replica[client], Append(Append(frames, news), answer), log, stored + 1, TRUE)
      <4> DEFINE more == Append(frames, news)
                 request == persisting[1].request
                 told == Decided(Remembered(entry).outcome)
      <4>1. more \in Seq(Frame) /\ InStep(replica[client], more, log, stored + 1, TRUE)
        BY <3>1, <3>2
      <4>2. OutcomeFrame(request, told) \in Frame
        BY <2>6
      <4> HIDE DEF more, request, told, stored
      <4>3. InStep(replica[client], Append(more, OutcomeFrame(request, told)), log, stored + 1, TRUE)
        BY <4>1, <4>2, InStepAnswered
      <4>4. QED
        BY <4>3 DEF more, request, told
    <3>4. toClient'[client] = Append(frames, news) \/ toClient'[client] = Append(Append(frames, news), answer)
      BY <1>2, <2>7
    <3> HIDE DEF news, answer, frames, stored
    <3>5. InStep(replica[client], toClient'[client], log, stored + 1, TRUE)
      BY <3>1, <3>3, <3>4
    <3>6. Connected(client)' = TRUE
      BY <1>3, <2>7 DEF Connected
    <3>7. QED
      BY <1>1, <1>3, <2>4, <3>5, <3>6 DEF InStepWith
  <2>8. CASE ~ Connected(client)
    <3>1. Connected(client)' = FALSE
      BY <1>3, <2>8 DEF Connected
    <3>2. toClient'[client] = <<>>
      BY <1>2, <2>8 DEF Base, QuietUnlessConnected
    <3>3. Follows(replica[client], log)
      BY <2>2 DEF InStep
    <3>4. QED
      BY <1>1, <1>3, <3>1, <3>2, <3>3, InStepAlone DEF InStepWith
  <2>9. QED
    BY <2>7, <2>8
<1>6. QED
  BY <1>1, <1>5 DEF Follow, InStepWith, Untroubled

LEMMA FollowRoom ==
  ASSUME Base, Smooth, Follow, RoomNext
  PROVE  Follow'
<1>0. failures \in Nat /\ crashes \in Nat
  BY DEF Base, Types
<1>1. ASSUME NEW client \in Clients, Arrives(client) \/ StrayArrives(client)
      PROVE  Follow'
  BY <1>1, FollowUntouched DEF Arrives, StrayArrives, clientVars, faultVars
<1>2. ASSUME NEW client \in Clients, RefusedAtRate(client)
      PROVE  Follow'
  <2> DEFINE request == Head(toServer[client])
  <2>1. /\ toServer[client] # <<>>
        /\ toClient' = [toClient EXCEPT ![client] = Append(@, OutcomeFrame(request, RateLimited))]
        /\ UNCHANGED <<file, loaded, log, phase, replica, crashes, failures>>
    BY <1>2 DEF RefusedAtRate, serverVars, clientVars, faultVars
  <2>2. toServer[client] \in Seq(Requests)
    BY DEF Base, Types, NetworkTypes
  <2>3. request \in Requests
    BY <2>1, <2>2, RangeOfTail
  <2>4. OutcomeFrame(request, RateLimited) \in Frame
    BY <2>3 DEF Frame, OutcomeFrame, Told
  <2> HIDE DEF request
  <2>5. \A other \in Clients :
          \/ toClient'[other] = toClient[other]
          \/ toClient'[other] = Append(toClient[other], OutcomeFrame(request, RateLimited))
    BY <2>1 DEF Base, Types, NetworkTypes
  <2>6. QED
    BY <2>1, <2>4, <2>5, FollowAnswers
<1>3. ASSUME PersistFails \/ \E entry \in retries : RetryFails(entry)
      PROVE  Follow'
  BY <1>0, <1>3 DEF PersistFails, RetryFails, Follow
<1>4. ASSUME NEW entry \in retries, Retry(entry)
      PROVE  Follow'
  BY <1>4 DEF Retry, Follow, Smooth, FileFollows, faultVars
<1>5. ASSUME Unload
      PROVE  Follow'
  <2>1. /\ loaded /\ persisting = <<>> /\ loaded' = FALSE
        /\ UNCHANGED <<file, phase, replica, toClient, crashes, failures>>
    BY <1>5 DEF Unload, EmptyRoom, clientVars, faultVars
  <2>2. Untroubled => log = file
    BY <2>1 DEF Smooth, FileFollows, Untroubled
  <2>3. Untroubled => History' = History
    BY <2>1, <2>2 DEF History
  <2>4. \A client \in Clients : Connected(client)' = Connected(client)
    BY <2>1 DEF Connected
  <2>5. QED
    BY <2>1, <2>3, <2>4 DEF Follow, Untroubled
<1>6. ASSUME Crash
      PROVE  Follow'
  BY <1>0, <1>6 DEF Crash, Follow
<1>7. QED
  BY <1>1, <1>2, <1>3, <1>4, <1>5, <1>6, FollowDecides, FollowPersisted DEF RoomNext

LEMMA FollowNext ==
  ASSUME Base, Smooth, Follow, [Next]_vars
  PROVE  Follow'
<1>1. ASSUME NEW client \in Clients, ClientNext(client)
      PROVE  Follow'
  <2>1. ASSUME NEW request \in Requests, Submit(client, request)
        PROVE  Follow'
    BY <2>1, FollowUntouched DEF Submit, serverVars, faultVars
  <2>2. QED
    BY <1>1, <2>1, FollowFrameArrives, FollowConnect, FollowLose DEF ClientNext
<1>2. ASSUME UNCHANGED vars
      PROVE  Follow'
  BY <1>2, FollowUntouched DEF vars, serverVars, clientVars, networkVars, faultVars
<1>3. QED
  BY <1>1, <1>2, FollowRoom DEF Next

\* While nothing failed, what every client shows, connected or not, is what the room had
\* after some number of its entries (ReplicaFollowsLog), through lost connections, entries
\* sent twice, unloads and loads.
THEOREM ReplicasFollowTheLog == Spec => []ReplicaFollowsLog
<1>1. Init => Follow
  BY FollowInit
<1>2. Base /\ Smooth /\ Follow /\ [Next]_vars => Follow'
  BY FollowNext
<1>3. Base /\ Follow => ReplicaFollowsLog
  <2>1. ASSUME Base, Follow, crashes = 0, failures = 0, NEW client \in Clients
        PROVE  FollowsLog(replica[client])
    <3>1. Follows(replica[client], History) /\ replica[client].sequence \in Nat
      BY <2>1 DEF Follow, InStep, Base, Types, ClientTypes, Snapshot
    <3>2. Len(History) \in Nat
      BY <2>1 DEF History, Base, Types, ServerTypes
    <3>3. replica[client].sequence \in 0 .. Len(History)
      BY <3>1, <3>2 DEF Follows
    <3>4. QED
      BY <3>1, <3>3 DEF Follows, FollowsLog
  <2>2. QED
    BY <2>1 DEF ReplicaFollowsLog
<1>4. QED
  BY <1>1, <1>2, <1>3, BaseAlways, SmoothAlways, PTL DEF Spec

=============================================================================
