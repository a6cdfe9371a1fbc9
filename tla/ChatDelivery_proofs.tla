------------------------ MODULE ChatDelivery_proofs ------------------------
(***************************************************************************)
(* Theorems about the streams of ChatStreams, for every set of turns,      *)
(* chats and tabs and every limit: types, the quota, and that what a tab   *)
(* is sent is complete, in step and of one turn.                           *)
(*                                                                         *)
(* The invariant of the last is in three layers. StreamInv: the types, and *)
(* that a buffer which can be replayed holds all it accepted, with the     *)
(* open parts its chunks leave open (Kept). Linked: which tab waits for    *)
(* which POST, reads which buffer, and is subscribed where. Delivering:    *)
(* besides Delivered, that the cursor counts exactly what was merged       *)
(* (Counted), without which a resume would not continue the message.       *)
(***************************************************************************)
EXTENDS ChatStreams_proofs, FiniteSetTheorems, SequenceTheorems, WellFoundedInduction

(* Every set of natural numbers that has elements has a least one. *)
LEMMA LeastOf ==
  ASSUME NEW S \in SUBSET Nat, S # {}
  PROVE  \E n \in S : \A m \in S : n <= m
<1>1. IsWellFoundedOn(OpToRel(<, Nat), Nat)
  BY NatLessThanWellFounded
<1> DEFINE Less == OpToRel(<, Nat)
<1>2. \A x, y \in Nat : x < y => <<x, y>> \in Less
  BY DEF OpToRel
<1> HIDE DEF Less
<1>3. \E n \in S : \A m \in S : ~ (<<m, n>> \in Less)
  BY <1>1, WFMin DEF Less
<1>4. PICK n \in S : \A m \in S : ~ (<<m, n>> \in Less)
  BY <1>3
<1>5. \A m \in S : n <= m
  <2> SUFFICES ASSUME NEW m \in S PROVE n <= m
    OBVIOUS
  <2>1. n \in Nat /\ m \in Nat /\ ~ (m < n)
    BY <1>2, <1>4
  <2> QED BY <2>1
<1> QED BY <1>5

(* A bounded one that has elements has a greatest one. *)
LEMMA GreatestOf ==
  ASSUME NEW h \in Nat, NEW S \in SUBSET (1 .. h), S # {}
  PROVE  \E n \in S : \A m \in S : m <= n
<1> DEFINE T == {h - m : m \in S}
<1>1. T \in SUBSET Nat /\ T # {}
  <2>1. \A m \in S : m \in Nat /\ h - m \in Nat
    OBVIOUS
  <2>2. T \in SUBSET Nat
    BY <2>1
  <2> QED BY <2>2
<1>2. PICK d \in T : \A e \in T : d <= e
  BY <1>1, LeastOf
<1>3. PICK n \in S : d = h - n
  BY <1>2
<1>4. \A m \in S : m <= n
  BY <1>2, <1>3
<1> QED BY <1>4

(* It is finite. *)
LEMMA Bounded ==
  ASSUME NEW h \in Nat, NEW S \in SUBSET (1 .. h)
  PROVE  IsFiniteSet(S) /\ Cardinality(S) \in Nat
<1>1. 1 \in Int /\ h \in Int
  OBVIOUS
<1>2. IsFiniteSet(1 .. h)
  BY <1>1, FS_Interval
<1>3. IsFiniteSet(S)
  BY <1>2, FS_Subset
<1> QED BY <1>3, FS_CardinalityType

(* s lists the set S in ascending order. *)
Lists(s, S) ==
  /\ s \in [1 .. Cardinality(S) -> S]
  /\ \A i, j \in 1 .. Cardinality(S) : i < j => s[i] < s[j]

(* Every finite set of numbers can be listed so: take a smallest set that  *)
(* cannot, and list it without its greatest element first.                 *)
LEMMA Listed ==
  ASSUME NEW h \in Nat, NEW S \in SUBSET (1 .. h)
  PROVE  \E s : Lists(s, S)
<1> DEFINE Bad == {n \in Nat : \E T \in SUBSET (1 .. h) : Cardinality(T) = n /\ ~ \E s : Lists(s, T)}
<1>0. \A T \in SUBSET (1 .. h) : IsFiniteSet(T) /\ Cardinality(T) \in Nat
  BY Bounded
<1>1. SUFFICES Bad = {}
  BY <1>0
<1>2. SUFFICES ASSUME Bad # {} PROVE FALSE
  OBVIOUS
<1>3. PICK n \in Bad : \A m \in Bad : n <= m
  <2>1. Bad \in SUBSET Nat
    OBVIOUS
  <2> QED BY <1>2, <2>1, LeastOf
<1>4. PICK T \in SUBSET (1 .. h) : Cardinality(T) = n /\ ~ \E s : Lists(s, T)
  BY <1>3
<1>5. T # {}
  <2>1. SUFFICES ASSUME T = {} PROVE \E s : Lists(s, T)
    BY <1>4
  <2>2. Cardinality(T) = 0
    BY <2>1, FS_EmptySet
  <2>3. Lists([i \in 1 .. 0 |-> i], T)
    BY <2>1, <2>2 DEF Lists
  <2> QED BY <2>3
<1>6. PICK g \in T : \A m \in T : m <= g
  BY <1>5, GreatestOf
<1> DEFINE U == T \ {g}
<1>7. U \in SUBSET (1 .. h) /\ Cardinality(U) = n - 1 /\ n \in Nat /\ n - 1 \in Nat /\ g \in Nat
  <2>1. Cardinality(U) = n - 1 /\ Cardinality(U) \in Nat
    BY <1>0, <1>4, <1>6, FS_RemoveElement
  <2> QED BY <2>1, <1>3
<1>8. PICK s : Lists(s, U)
  <2>1. ~ (n - 1 \in Bad)
    BY <1>3, <1>7
  <2> QED BY <2>1, <1>7
<1> HIDE DEF Bad
<1> DEFINE w == [i \in 1 .. n |-> IF i = n THEN g ELSE s[i]]
<1>9. Lists(w, T)
  <2>1. \A i \in 1 .. n - 1 : s[i] \in T /\ s[i] \in Nat /\ s[i] < g
    <3> SUFFICES ASSUME NEW i \in 1 .. n - 1 PROVE s[i] \in T /\ s[i] \in Nat /\ s[i] < g
      OBVIOUS
    <3>1. s[i] \in U
      BY <1>7, <1>8 DEF Lists
    <3>2. \A x \in T : x \in Nat
      OBVIOUS
    <3>3. s[i] \in T /\ s[i] # g
      BY <3>1
    <3>4. s[i] <= g /\ s[i] \in Nat
      BY <3>2, <3>3, <1>6
    <3> HIDE DEF U, w
    <3> QED BY <3>3, <3>4, <1>7
  <2>2. \A i \in 1 .. n : i = n \/ i \in 1 .. n - 1
    BY <1>7
  <2>3. w \in [1 .. n -> T]
    BY <2>1, <2>2, <1>6
  <2>4. ASSUME NEW i \in 1 .. n, NEW j \in 1 .. n, i < j PROVE w[i] < w[j]
    <3>1. i \in 1 .. n - 1
      BY <1>7, <2>4
    <3>2. CASE j = n
      BY <2>1, <3>1, <3>2
    <3>3. CASE j \in 1 .. n - 1
      <4>1. s[i] < s[j]
        BY <1>7, <1>8, <2>4, <3>1, <3>3 DEF Lists
      <4> QED BY <4>1, <3>1, <3>3, <1>7
    <3> QED BY <2>2, <3>2, <3>3
  <2> QED BY <1>4, <2>3, <2>4 DEF Lists
<1> QED BY <1>4, <1>9

(* What Ascending lists is each element of the set. *)
LEMMA AscendingLists ==
  ASSUME NEW h \in Nat, NEW S \in SUBSET (1 .. h)
  PROVE  /\ Cardinality(S) \in Nat
         /\ Ascending(S) \in Seq(S) /\ Len(Ascending(S)) = Cardinality(S)
         /\ \A x \in S : \E i \in 1 .. Cardinality(S) : Ascending(S)[i] = x
<1> DEFINE n == Cardinality(S)
           a == Ascending(S)
<1>0. IsFiniteSet(S) /\ n \in Nat
  BY Bounded
<1>1. Lists(a, S)
  BY Listed DEF Ascending, Lists
<1>2. a \in [1 .. n -> S]
  BY <1>1 DEF Lists
<1>3. a \in Seq(S) /\ Len(a) = n
  BY <1>0, <1>2
<1>4. ASSUME NEW i \in 1 .. n, NEW j \in 1 .. n, i # j PROVE a[i] # a[j]
  <2>1. a[i] \in S /\ a[j] \in S
    BY <1>2
  <2>2. a[i] < a[j] \/ a[j] < a[i]
    BY <1>0, <1>1, <1>4 DEF Lists
  <2>3. a[i] \in Nat /\ a[j] \in Nat
    <3>1. \A x \in S : x \in Nat
      OBVIOUS
    <3> QED BY <2>1, <3>1
  <2> HIDE DEF a
  <2> QED BY <2>2, <2>3
<1>5. IsFiniteSet(1 .. n) /\ Cardinality(1 .. n) = n
  BY <1>0, FS_Interval
<1>6. a \in Injection(1 .. n, S)
  BY <1>2, <1>4 DEF Injection, IsInjective
<1>7. a \in Surjection(1 .. n, S)
  BY <1>0, <1>5, <1>6, FS_Injection
<1>8. \A x \in S : \E i \in 1 .. n : a[i] = x
  BY <1>7 DEF Surjection
<1> QED BY <1>0, <1>3, <1>8

(* r re-opens with a frames the parts of op that opened up to from, each   *)
(* of them, and goes on with the chunks after from.                        *)
IsReplay(r, chunks, op, from, a, open) ==
  LET h == Len(chunks)
      rest == IF h >= from THEN h - from ELSE 0
  IN /\ open \in [1 .. a -> {i \in op : i <= from}]
     /\ r \in Seq(Frames) /\ Len(r) = a + rest
     /\ \A i \in 1 .. a :
          r[i].chunk = chunks[open[i]] /\ r[i].pos = open[i] /\ r[i].kept = TRUE /\ r[i].again = TRUE
     /\ \A i \in a + 1 .. a + rest :
          /\ r[i].chunk = chunks[from + (i - a)] /\ r[i].pos = from + (i - a)
          /\ r[i].kept = TRUE /\ r[i].again = FALSE
     /\ \A x \in op : x <= from => \E i \in 1 .. a : open[i] = x

(* What is replayed for a cursor is that. *)
LEMMA ReplayIs ==
  ASSUME NEW c \in Chats, NEW from \in Nat,
         events[c] \in Seq(Chunks), opened[c] \subseteq DOMAIN events[c]
  PROVE  \E a \in Nat : \E open : IsReplay(Replay(c, from), events[c], opened[c], from, a, open)
<1> DEFINE S == {i \in opened[c] : i <= from}
           h == Len(events[c])
           a == Cardinality(S)
           open == Ascending(S)
           rest == IF h >= from THEN h - from ELSE 0
           first == [n \in 1 .. Len(open) |-> [chunk |-> events[c][open[n]], pos |-> open[n],
                                              kept |-> TRUE, again |-> TRUE]]
           second == [n \in 1 .. h - from |-> [chunk |-> events[c][from + n], pos |-> from + n,
                                              kept |-> TRUE, again |-> FALSE]]
<1>1. h \in Nat /\ DOMAIN events[c] = 1 .. h /\ \A i \in 1 .. h : events[c][i] \in Chunks
  OBVIOUS
<1>2. S \in SUBSET (1 .. h)
  BY <1>1
<1>3. /\ a \in Nat /\ open \in Seq(S) /\ Len(open) = a
      /\ \A x \in S : \E i \in 1 .. a : open[i] = x
  <2> HIDE DEF S, h
  <2> QED BY <1>1, <1>2, AscendingLists
<1>4. open \in [1 .. a -> S]
  <2> HIDE DEF S, a, open
  <2> QED BY <1>3
<1>5. rest \in Nat /\ 1 .. h - from = 1 .. rest /\ \A n \in 1 .. rest : from + n \in 1 .. h /\ from + n \in Nat
  <2> HIDE DEF h
  <2> QED BY <1>1
<1>6. first \in Seq(Frames) /\ Len(first) = a
      /\ \A i \in 1 .. a : first[i] = [chunk |-> events[c][open[i]], pos |-> open[i],
                                       kept |-> TRUE, again |-> TRUE]
  <2>1. \A i \in 1 .. a : open[i] \in Nat /\ events[c][open[i]] \in Chunks
    <3> HIDE DEF a, open, h
    <3>1. \A x \in S : x \in 1 .. h /\ x \in Nat
      BY <1>1, <1>2
    <3> QED BY <1>1, <1>4, <3>1
  <2> HIDE DEF a, open, S, h
  <2>2. first = [n \in 1 .. a |-> [chunk |-> events[c][open[n]], pos |-> open[n],
                                  kept |-> TRUE, again |-> TRUE]]
    BY <1>3
  <2>3. \A i \in 1 .. a : first[i] \in Frames
    BY <2>1, <2>2 DEF Frames
  <2>4. first \in [1 .. a -> Frames]
    BY <2>2, <2>3
  <2>5. first \in Seq(Frames) /\ Len(first) = a
    BY <1>3, <2>4
  <2> QED BY <2>2, <2>5
<1>7. second \in Seq(Frames) /\ Len(second) = rest
      /\ \A n \in 1 .. rest : second[n] = [chunk |-> events[c][from + n], pos |-> from + n,
                                          kept |-> TRUE, again |-> FALSE]
  <2> HIDE DEF a, open, S, h, rest
  <2>1. second = [n \in 1 .. rest |-> [chunk |-> events[c][from + n], pos |-> from + n,
                                  kept |-> TRUE, again |-> FALSE]]
    BY <1>5
  <2>2. \A n \in 1 .. rest : second[n] \in Frames
    BY <1>1, <1>5, <2>1 DEF Frames
  <2>3. second \in [1 .. rest -> Frames]
    BY <2>1, <2>2
  <2> HIDE DEF second
  <2>4. second \in Seq(Frames) /\ Len(second) = rest
    BY <1>5, <2>3
  <2> QED BY <2>1, <2>4
<1>8. Replay(c, from) = first \o second
  BY DEF Replay
<1> HIDE DEF first, second, rest, a, open
<1>9. first \o second \in Seq(Frames) /\ Len(first \o second) = a + rest
  BY <1>6, <1>7, ConcatProperties
<1>10. \A i \in 1 .. a + rest : (first \o second)[i] = IF i <= a THEN first[i] ELSE second[i - a]
  BY <1>6, <1>7, ConcatProperties
<1> HIDE DEF S, h
<1>11. a \in Nat /\ rest \in Nat
  BY <1>3, <1>5
<1>12. \A i \in 1 .. a : (first \o second)[i] = first[i]
  <2>1. \A i \in 1 .. a : i \in 1 .. a + rest /\ i <= a
    BY <1>11
  <2> QED BY <1>10, <2>1
<1>13. \A i \in a + 1 .. a + rest : (first \o second)[i] = second[i - a] /\ i - a \in 1 .. rest
  <2>1. \A i \in a + 1 .. a + rest : i \in 1 .. a + rest /\ ~ (i <= a) /\ i - a \in 1 .. rest
    BY <1>11
  <2> QED BY <1>10, <2>1
<1>14. \A x \in opened[c] : x <= from => \E i \in 1 .. a : open[i] = x
  BY <1>3 DEF S
<1> DEFINE r == Replay(c, from)
<1>15. \A i \in 1 .. a : r[i].chunk = events[c][open[i]] /\ r[i].pos = open[i]
                       /\ r[i].kept = TRUE /\ r[i].again = TRUE
  BY <1>6, <1>8, <1>12
<1>16. \A i \in a + 1 .. a + rest :
          /\ r[i].chunk = events[c][from + (i - a)] /\ r[i].pos = from + (i - a)
          /\ r[i].kept = TRUE /\ r[i].again = FALSE
  <2> SUFFICES ASSUME NEW i \in a + 1 .. a + rest
               PROVE  /\ r[i].chunk = events[c][from + (i - a)] /\ r[i].pos = from + (i - a)
                      /\ r[i].kept = TRUE /\ r[i].again = FALSE
    OBVIOUS
  <2>1. r[i] = second[i - a] /\ i - a \in 1 .. rest
    BY <1>8, <1>13
  <2>2. second[i - a] = [chunk |-> events[c][from + (i - a)], pos |-> from + (i - a),
                         kept |-> TRUE, again |-> FALSE]
    BY <1>7, <2>1
  <2> HIDE DEF r
  <2> QED BY <2>1, <2>2
<1>17. r \in Seq(Frames) /\ Len(r) = a + rest
  BY <1>8, <1>9
<1> HIDE DEF r
<1>18. IsReplay(r, events[c], opened[c], from, a, open)
  BY <1>4, <1>14, <1>15, <1>16, <1>17 DEF IsReplay, rest, S, h
<1> QED BY <1>3, <1>18 DEF r

-----------------------------------------------------------------------------
USE ChatStreamAssumption

(* What a buffer holds.                                                    *)

(* The chunk at i opens a part which no later one closes, or opens again.  *)
StillOpen(chunks, i) ==
  /\ chunks[i].kind = "start"
  /\ \A j \in DOMAIN chunks : j > i /\ chunks[j].part = chunks[i].part => chunks[j].kind = "more"

(* What a buffer holds is of its turn, and all of it as long as it can be  *)
(* replayed; its open parts are those the recorded chunks leave open.      *)
KeptIn(c) ==
  /\ \A i \in DOMAIN events[c] : events[c][i].by = stream[c]
  /\ opened[c] = {i \in DOMAIN events[c] : StillOpen(events[c], i)}
  /\ ~disabled[c] => Len(events[c]) = sent[c]
  /\ ~disabled[c] => telling[c] = {events[c][i].part : i \in opened[c]}

Kept == \A c \in Chats : KeptIn(c)

(* An empty buffer. *)
LEMMA EmptyKept ==
  ASSUME NEW c, events[c] = <<>>, opened[c] = {}, sent[c] = 0, telling[c] = {}
  PROVE  KeptIn(c)
BY DEF KeptIn, StillOpen

(* A new buffer, or none. *)
LEMMA InstallKept ==
  ASSUME BuffersOK, Kept, NEW c \in Chats, NEW b, Install(c, b)
  PROVE  Kept'
<1> SUFFICES ASSUME NEW d \in Chats PROVE KeptIn(d)'
  BY DEF Kept
<1>1. CASE d = c
  BY <1>1 DEF Install, BuffersOK, KeptIn, StillOpen
<1>2. CASE d # c
  <2>1. /\ events'[d] = events[d] /\ stream'[d] = stream[d] /\ opened'[d] = opened[d]
        /\ sent'[d] = sent[d] /\ telling'[d] = telling[d] /\ disabled'[d] = disabled[d]
    BY <1>2 DEF Install, BuffersOK
  <2> QED BY <2>1 DEF Kept, KeptIn, StillOpen
<1> QED BY <1>1, <1>2

(* A chunk that is recorded, or not. *)
LEMMA AcceptKept ==
  ASSUME BuffersOK, Kept, NEW c \in Chats, NEW t \in Turns, NEW kind \in Kinds, NEW part \in Parts,
         Accept(c, t, kind, part), stream[c] = t, UNCHANGED stream
  PROVE  Kept'
<1> SUFFICES ASSUME NEW d \in Chats PROVE KeptIn(d)'
  BY DEF Kept
<1>1. CASE d # c
  <2>1. /\ events'[d] = events[d] /\ opened'[d] = opened[d]
        /\ sent'[d] = sent[d] /\ telling'[d] = telling[d] /\ disabled'[d] = disabled[d]
    BY <1>1 DEF Accept, BuffersOK
  <2> QED BY <2>1 DEF Kept, KeptIn, StillOpen
<1>2. CASE d = c /\ disabled'[c]
  <2>1. UNCHANGED <<events, opened>>
    BY <1>2 DEF Accept, BuffersOK
  <2> QED BY <1>2, <2>1 DEF Kept, KeptIn, StillOpen
<1>3. CASE d = c /\ ~disabled'[c]
  <2> DEFINE chunk == [by |-> t, kind |-> kind, part |-> part]
             n == Len(events[c]) + 1
  <2>1. ~disabled[c] /\ Len(events[c]) = sent[c] /\ sent[c] + 1 = n
    BY <1>3 DEF Accept, BuffersOK, Kept, KeptIn
  <2>2. /\ events'[c] = Append(events[c], chunk)
        /\ opened'[c] = Reopened(c, kind, part, n)
        /\ sent'[c] = n
        /\ telling'[c] = IF kind = "start" THEN telling[c] \cup {part}
                         ELSE IF kind = "end" THEN telling[c] \ {part} ELSE telling[c]
    BY <1>3, <2>1 DEF Accept, BuffersOK
  <2>3. events[c] \in Seq(Chunks) /\ chunk \in Chunks
    BY DEF BuffersOK, Chunks
  <2>4. /\ n \in Nat /\ n \in 1 .. n /\ DOMAIN events[c] = 1 .. n - 1
        /\ DOMAIN events'[c] = 1 .. n /\ Len(events'[c]) = n
        /\ \A i \in 1 .. n - 1 : events'[c][i] = events[c][i]
        /\ events'[c][n] = chunk
    BY <2>2, <2>3
  <2>5. /\ \A i \in 1 .. n - 1 : events[c][i].by = t
        /\ opened[c] = {i \in 1 .. n - 1 : StillOpen(events[c], i)}
        /\ telling[c] = {events[c][i].part : i \in opened[c]}
    BY <2>1, <2>4 DEF Kept, KeptIn
  <2>6. \A i \in 1 .. n : i = n \/ i \in 1 .. n - 1
    BY <2>4
  <2> HIDE DEF n
  <2>7. \A i \in 1 .. n : events'[c][i].by = t
    BY <2>4, <2>5, <2>6
  <2>8. \A i \in 1 .. n - 1 :
          StillOpen(events'[c], i) <=> StillOpen(events[c], i) /\ (part = events[c][i].part => kind = "more")
    <3> SUFFICES ASSUME NEW i \in 1 .. n - 1
                 PROVE  StillOpen(events'[c], i) <=>
                          StillOpen(events[c], i) /\ (part = events[c][i].part => kind = "more")
      OBVIOUS
    <3>1. n > i /\ n \in 1 .. n /\ \A j \in 1 .. n - 1 : j \in 1 .. n
      BY <2>4
    <3>2. chunk.part = part /\ chunk.kind = kind
      OBVIOUS
    <3> HIDE DEF chunk
    <3>3. ASSUME StillOpen(events'[c], i) PROVE StillOpen(events[c], i) /\ (part = events[c][i].part => kind = "more")
      BY <2>4, <3>1, <3>2, <3>3 DEF StillOpen
    <3>4. ASSUME StillOpen(events[c], i), part = events[c][i].part => kind = "more" PROVE StillOpen(events'[c], i)
      BY <2>4, <2>6, <3>1, <3>2, <3>4 DEF StillOpen
    <3> QED BY <3>3, <3>4
  <2>9. StillOpen(events'[c], n) <=> kind = "start"
    <3>1. \A j \in 1 .. n : ~ (j > n)
      BY <2>4
    <3>2. events'[c][n].kind = kind
      BY <2>4
    <3> QED BY <2>4, <3>1, <3>2 DEF StillOpen
  <2>10. /\ \A i \in opened[c] : i \in 1 .. n - 1 /\ i # n
         /\ \A i \in 1 .. n - 1 : i \in 1 .. n /\ i # n
         /\ n \in 1 .. n
    BY <2>4, <2>5
  <2>11. \A i : i \in opened'[c] <=>
           \/ i \in opened[c] /\ (part = events[c][i].part => kind = "more")
           \/ i = n /\ kind = "start"
    BY <2>2 DEF Reopened, Kinds
  <2>12. \A i : i \in opened[c] <=> i \in 1 .. n - 1 /\ StillOpen(events[c], i)
    BY <2>5
  <2>13. opened'[c] = {i \in 1 .. n : StillOpen(events'[c], i)}
    <3> HIDE DEF StillOpen
    <3>1. \A i \in 1 .. n - 1 : i \in opened'[c] <=> StillOpen(events'[c], i)
      BY <2>8, <2>10, <2>11, <2>12
    <3>2. n \in opened'[c] <=> StillOpen(events'[c], n)
      BY <2>9, <2>10, <2>11
    <3>3. \A i \in opened'[c] : i \in 1 .. n
      BY <2>10, <2>11
    <3>4. \A i \in 1 .. n : i \in opened'[c] <=> StillOpen(events'[c], i)
      BY <2>6, <3>1, <3>2
    <3> QED BY <3>3, <3>4
  <2>14. telling'[c] = {events'[c][i].part : i \in opened'[c]}
    <3>1. \A p : p \in telling[c] <=> \E i \in opened[c] : events[c][i].part = p
      BY <2>5
    <3>2. events'[c][n].part = part
      BY <2>4
    <3>3. \A i \in opened[c] : events'[c][i] = events[c][i]
      BY <2>4, <2>10
    <3>4. \A p : p \in telling'[c] <=>
            \/ p \in telling[c] /\ (p = part => kind = "more")
            \/ p = part /\ kind = "start"
      BY <2>2 DEF Kinds
    <3>5. \A p : p \in telling'[c] <=> \E i \in opened'[c] : events'[c][i].part = p
      BY <2>11, <3>1, <3>2, <3>3, <3>4
    <3> QED BY <3>5
  <2> QED BY <1>3, <2>2, <2>4, <2>7, <2>13, <2>14 DEF KeptIn
<1> QED BY <1>1, <1>2, <1>3

(* Steps that touch no buffer. *)
LEMMA ContentKept == Kept /\ UNCHANGED <<stream, content>> => Kept'
BY DEF Kept, KeptIn, StillOpen, content

(* Every step keeps what the buffers hold. *)
LEMMA KeptNext == BuffersOK /\ Kept /\ [Next]_vars => Kept'
<1> SUFFICES ASSUME BuffersOK, Kept, [Next]_vars PROVE Kept'
  OBVIOUS
<1>1. ASSUME NEW t \in Turns, TurnStep(t) PROVE Kept'
  <2>0. ChatOf[t] \in Chats
    OBVIOUS
  <2>1. ASSUME NEW kind \in Kinds, NEW part \in Parts, Emit(t, kind, part) PROVE Kept'
    BY <2>0, <2>1, AcceptKept, ContentKept DEF Emit, Accepts
  <2>2. CASE Create(t)
    BY <2>0, <2>2, InstallKept DEF Create
  <2>3. CASE HandlerEnds(t) \/ CloseTimer(t)
    BY <2>3, ContentKept DEF HandlerEnds, CloseTimer
  <2>4. CASE (\E k \in Tabs \cup {None} : Post(t, k)) \/ PostFails(t) \/ TaskEnds(t)
    BY <2>4, ContentKept DEF Post, PostFails, TaskEnds, buffers
  <2> QED
    BY <1>1, <2>1, <2>2, <2>3, <2>4 DEF TurnStep
<1>2. ASSUME NEW k \in Tabs, TabStep(k) PROVE Kept'
  BY <1>2, ContentKept DEF TabStep, Read, ReadDone, Drop, Resume, ResumeRefused, Leave, buffers
<1>3. ASSUME NEW c \in Chats, Cancel(c) \/ StopShowing(c) PROVE Kept'
  BY <1>3, ContentKept DEF Cancel, StopShowing
<1>4. ASSUME NEW c \in Chats, Cleanup(c) PROVE Kept'
  BY <1>4, InstallKept DEF Cleanup
<1>5. CASE Drain
  BY <1>5, ContentKept DEF Drain, buffers
<1>6. CASE Down
  BY <1>6 DEF Down, Kept, KeptIn
<1>7. CASE UNCHANGED vars
  BY <1>7, ContentKept DEF vars, buffers
<1> QED
  BY <1>1, <1>2, <1>3, <1>4, <1>5, <1>6, <1>7 DEF Next

(* Every buffer starts empty. *)
LEMMA KeptInit == Init => Kept
BY DEF Init, Kept, KeptIn

-----------------------------------------------------------------------------
(* The tabs keep to their types.                                           *)

(* Every tab starts in its domain. *)
LEMMA TabsInit == Init => TabsOK
<1> SUFFICES ASSUME Init PROVE TabsOK
  OBVIOUS
<1>1. <<>> \in Seq(Frames) /\ <<>> \in Seq(Nat)
  OBVIOUS
<1> QED BY <1>1 DEF Init, TabsOK, Buffers

(* Connections that are closed. *)
LEMMA CloseTyped ==
  ASSUME TabsOK, NEW C \in SUBSET Chats, Close(C)
  PROVE  subs' \in [Chats -> SUBSET Tabs] /\ ended' \subseteq Tabs
BY DEF TabsOK, Close

(* What a turn does to the tabs. *)
LEMMA TurnTabs ==
  ASSUME TurnsOK, BuffersOK, TabsOK, NEW t \in Turns, TurnStep(t)
  PROVE  TabsOK'
<1>0. ChatOf[t] \in Chats /\ {ChatOf[t]} \in SUBSET Chats
  OBVIOUS
<1>1. ASSUME NEW k \in Tabs \cup {None}, Post(t, k) PROVE TabsOK'
  <2>1. phase' \in [Tabs -> {"opening", "ready", "sent", "reading", "dropped", "lost"}]
    BY <1>1 DEF Post, Tell, TabsOK
  <2>2. cursor' \in [Tabs -> Nat]
    BY <1>1 DEF Post, TabsOK
  <2> QED BY <1>1, <2>1, <2>2 DEF Post, TabsOK
<1>2. CASE PostFails(t)
  <2>1. phase' \in [Tabs -> {"opening", "ready", "sent", "reading", "dropped", "lost"}]
    BY <1>2 DEF PostFails, Tell, TabsOK
  <2> QED BY <1>2, <2>1 DEF PostFails, TabsOK
<1>3. CASE Create(t)
  <2> DEFINE k == poster[t]
  <2>1. <<>> \in Seq(Nat) /\ {} \in SUBSET Parts /\ t \in Buffers
    BY DEF Buffers
  <2>2. CASE k \in Tabs
    <3>1. /\ phase' = [phase EXCEPT ![k] = "reading"] /\ of' = [of EXCEPT ![k] = t]
          /\ parts' = [parts EXCEPT ![k] = {}] /\ merged' = [merged EXCEPT ![k] = <<>>]
          /\ misled' = misled \ {k} /\ subs' = [subs EXCEPT ![ChatOf[t]] = {k} \cap Tabs]
          /\ ended' = ended \cup subs[ChatOf[t]] /\ UNCHANGED <<shown, wire, cursor, breaks>>
      BY <1>3, <2>2 DEF Create, Reads
    <3> HIDE DEF k
    <3>2. /\ phase' \in [Tabs -> {"opening", "ready", "sent", "reading", "dropped", "lost"}]
          /\ of' \in [Tabs -> Buffers] /\ parts' \in [Tabs -> SUBSET Parts]
      BY <2>1, <3>1 DEF TabsOK
    <3>3. merged' \in [Tabs -> Seq(Nat)]
      BY <2>1, <3>1 DEF TabsOK
    <3>4. subs' \in [Chats -> SUBSET Tabs] /\ ended' \subseteq Tabs /\ misled' \subseteq Tabs
      BY <1>0, <3>1 DEF TabsOK
    <3> QED BY <3>1, <3>2, <3>3, <3>4 DEF TabsOK
  <2>3. CASE k \notin Tabs
    <3>1. /\ subs' = [subs EXCEPT ![ChatOf[t]] = {k} \cap Tabs]
          /\ ended' = ended \cup subs[ChatOf[t]]
          /\ UNCHANGED <<phase, of, parts, merged, misled, shown, wire, cursor, breaks>>
      BY <1>3, <2>3 DEF Create
    <3>2. subs' \in [Chats -> SUBSET Tabs] /\ ended' \subseteq Tabs
      BY <1>0, <3>1 DEF TabsOK
    <3> QED BY <3>1, <3>2 DEF TabsOK
  <2> QED BY <2>2, <2>3
<1>4. ASSUME NEW kind \in Kinds, NEW part \in Parts, Emit(t, kind, part) PROVE TabsOK'
  <2>1. wire' \in [Tabs -> Seq(Frames)]
    <3>1. CASE wire' = wire
      BY <3>1 DEF TabsOK
    <3>2. CASE wire' # wire
      <4>1. PICK kept \in BOOLEAN : wire' =
              [k \in Tabs |-> IF k \in subs[ChatOf[t]]
                 THEN Append(wire[k], [chunk |-> [by |-> t, kind |-> kind, part |-> part],
                                       pos |-> sent[ChatOf[t]] + 1, kept |-> kept, again |-> FALSE])
                 ELSE wire[k]]
        <5>1. (~disabled[ChatOf[t]] /\ Len(events[ChatOf[t]]) < MaxEvents /\ total < Ceiling) \in BOOLEAN
          OBVIOUS
        <5> QED BY <1>4, <3>2, <5>1 DEF Emit, Accept
      <4>2. [chunk |-> [by |-> t, kind |-> kind, part |-> part],
             pos |-> sent[ChatOf[t]] + 1, kept |-> kept, again |-> FALSE] \in Frames
        BY <1>0 DEF Frames, Chunks, BuffersOK
      <4>3. \A k \in Tabs : wire[k] \in Seq(Frames)
        BY DEF TabsOK
      <4>4. \A k \in Tabs : wire'[k] \in Seq(Frames)
        BY <4>1, <4>2, <4>3
      <4> QED BY <4>1, <4>4
    <3> QED BY <3>1, <3>2
  <2> QED BY <1>4, <2>1 DEF Emit, TabsOK, tabs
<1>5. CASE HandlerEnds(t) \/ CloseTimer(t)
  <2>1. subs' \in [Chats -> SUBSET Tabs] /\ ended' \subseteq Tabs
    BY <1>0, <1>5, CloseTyped DEF HandlerEnds, CloseTimer, FinishIfCurrent, Finish, TabsOK
  <2> QED BY <1>5, <2>1 DEF HandlerEnds, CloseTimer, tabs, TabsOK
<1>6. CASE TaskEnds(t)
  BY <1>6 DEF TaskEnds, tabs, TabsOK
<1> QED BY <1>1, <1>2, <1>3, <1>4, <1>5, <1>6 DEF TurnStep

(* A replay is of frames. *)
LEMMA ReplayTyped ==
  ASSUME BuffersOK, Kept, NEW c \in Chats, NEW from \in Nat
  PROVE  Replay(c, from) \in Seq(Frames)
<1>1. events[c] \in Seq(Chunks) /\ opened[c] \subseteq DOMAIN events[c]
  BY DEF BuffersOK, Kept, KeptIn
<1>2. PICK a \in Nat : \E open : IsReplay(Replay(c, from), events[c], opened[c], from, a, open)
  BY <1>1, ReplayIs
<1> QED BY <1>2 DEF IsReplay

(* What a tab does. *)
LEMMA TabTabs ==
  ASSUME BuffersOK, Kept, TabsOK, NEW k \in Tabs, TabStep(k)
  PROVE  TabsOK'
<1> DEFINE Phases == {"opening", "ready", "sent", "reading", "dropped", "lost"}
<1>0. <<>> \in Seq(Nat) /\ <<>> \in Seq(Frames) /\ {} \in SUBSET Parts /\ None \in Buffers
  BY DEF Buffers
<1>1. CASE Read(k)
  <2> DEFINE f == Head(wire[k])
  <2>1. f \in Frames /\ Tail(wire[k]) \in Seq(Frames)
    BY <1>1 DEF Read, TabsOK
  <2>2. f.pos \in Nat /\ f.chunk.part \in Parts
    BY <2>1 DEF Frames, Chunks
  <2>3. parts' \in [Tabs -> SUBSET Parts]
    <3>1. parts[k] \cup {f.chunk.part} \in SUBSET Parts /\ parts[k] \ {f.chunk.part} \in SUBSET Parts
      BY <2>2 DEF TabsOK
    <3> QED BY <1>1, <3>1 DEF Read, TabsOK
  <2>4. merged' \in [Tabs -> Seq(Nat)]
    <3>1. merged[k] \in Seq(Nat) /\ Append(merged[k], f.pos) \in Seq(Nat)
      BY <2>2 DEF TabsOK
    <3> QED BY <1>1, <3>1 DEF Read, TabsOK
  <2>5. cursor' \in [Tabs -> Nat]
    BY <1>1, <2>2 DEF Read, TabsOK
  <2>6. wire' \in [Tabs -> Seq(Frames)]
    BY <1>1, <2>1 DEF Read, TabsOK
  <2> QED BY <1>1, <2>3, <2>4, <2>5, <2>6 DEF Read, TabsOK
<1>2. ASSUME Forget(k)
      PROVE  /\ of' \in [Tabs -> Buffers] /\ parts' \in [Tabs -> SUBSET Parts]
             /\ merged' \in [Tabs -> Seq(Nat)] /\ misled' \subseteq Tabs
  BY <1>0, <1>2 DEF Forget, TabsOK
<1>3. ASSUME NEW next \in Phases, Tell(k, next) PROVE phase' \in [Tabs -> Phases]
  BY <1>3 DEF Tell, TabsOK
<1>4. ASSUME Disconnect(k)
      PROVE  /\ subs' \in [Chats -> SUBSET Tabs] /\ wire' \in [Tabs -> Seq(Frames)]
             /\ ended' \subseteq Tabs /\ breaks' \in [Tabs -> Nat]
  BY <1>0, <1>4 DEF Disconnect, TabsOK
<1>5. CASE ReadDone(k)
  <2>1. phase' \in [Tabs -> Phases]
    BY <1>3, <1>5 DEF ReadDone
  <2> QED BY <1>2, <1>5, <2>1 DEF ReadDone, TabsOK
<1>6. CASE Drop(k)
  <2>1. phase' \in [Tabs -> Phases]
    BY <1>3, <1>6 DEF Drop
  <2>2. /\ of' \in [Tabs -> Buffers] /\ parts' \in [Tabs -> SUBSET Parts]
        /\ merged' \in [Tabs -> Seq(Nat)] /\ misled' \subseteq Tabs
    BY <1>0, <1>2, <1>6 DEF Drop, TabsOK
  <2> QED BY <1>4, <1>6, <2>1, <2>2 DEF Drop, TabsOK
<1>7. ASSUME NEW c \in Chats, NEW reload \in BOOLEAN, Leave(k, c, reload) PROVE TabsOK'
  <2>1. phase' \in [Tabs -> Phases]
    BY <1>3, <1>7 DEF Leave
  <2>2. shown' \in [Tabs -> Chats] /\ cursor' \in [Tabs -> Nat]
    BY <1>7 DEF Leave, TabsOK
  <2> QED BY <1>2, <1>4, <1>7, <2>1, <2>2 DEF Leave, TabsOK
<1>8. CASE Resume(k)
  <2> DEFINE c == shown[k]
  <2>1. c \in Chats /\ cursor[k] \in Nat /\ stream[c] \in Buffers
    BY DEF TabsOK, BuffersOK
  <2>2. Replay(c, cursor[k]) \in Seq(Frames)
    BY <2>1, ReplayTyped
  <2>3. wire' \in [Tabs -> Seq(Frames)]
    BY <1>8, <2>2 DEF Resume, TabsOK
  <2>4. /\ phase' \in [Tabs -> Phases] /\ of' \in [Tabs -> Buffers]
        /\ parts' \in [Tabs -> SUBSET Parts]
    BY <1>0, <1>8, <2>1 DEF Resume, Reads, TabsOK
  <2>5. merged' \in [Tabs -> Seq(Nat)] /\ misled' \subseteq Tabs
    BY <1>0, <1>8 DEF Resume, TabsOK
  <2>6. subs' \in [Chats -> SUBSET Tabs] /\ ended' \subseteq Tabs
    BY <1>8, <2>1 DEF Resume, TabsOK
  <2> QED BY <1>8, <2>3, <2>4, <2>5, <2>6 DEF Resume, TabsOK
<1>9. CASE ResumeRefused(k)
  <2>1. phase' \in [Tabs -> Phases]
    BY <1>3, <1>9 DEF ResumeRefused
  <2> QED BY <1>2, <1>9, <2>1 DEF ResumeRefused, TabsOK
<1> QED BY <1>1, <1>5, <1>6, <1>7, <1>8, <1>9 DEF TabStep

(* Every step leaves the tabs of their types. *)
LEMMA TabsNext == TurnsOK /\ BuffersOK /\ Kept /\ TabsOK /\ [Next]_vars => TabsOK'
<1> SUFFICES ASSUME TurnsOK, BuffersOK, Kept, TabsOK, [Next]_vars PROVE TabsOK'
  OBVIOUS
<1>1. ASSUME UNCHANGED <<tabs, wire>>, subs' \in [Chats -> SUBSET Tabs], ended' \subseteq Tabs
      PROVE  TabsOK'
  BY <1>1 DEF tabs, TabsOK
<1>2. ASSUME NEW c \in Chats, Cancel(c) \/ StopShowing(c) \/ Cleanup(c) PROVE TabsOK'
  <2>1. {c} \in SUBSET Chats
    OBVIOUS
  <2> QED BY <1>1, <1>2, <2>1, CloseTyped DEF Cancel, StopShowing, Cleanup, Finish
<1>3. CASE Drain
  BY <1>3 DEF Drain, tabs, TabsOK
<1>4. CASE Down
  BY <1>1, <1>4, CloseTyped DEF Down
<1>5. CASE UNCHANGED vars
  BY <1>5 DEF vars, tabs, TabsOK
<1> QED BY <1>2, <1>3, <1>4, <1>5, TurnTabs, TabTabs DEF Next

(* Types and contents hold together. *)
StreamInv == TurnInv /\ BuffersOK /\ Kept /\ TabsOK

(* The initial states satisfy the invariant. *)
LEMMA StreamInit == Init => StreamInv
BY TurnInit, BuffersInit, KeptInit, TabsInit DEF StreamInv

(* Every step keeps it. *)
LEMMA StreamNext == StreamInv /\ [Next]_vars => StreamInv'
BY TurnNext, BuffersNext, KeptNext, TabsNext DEF StreamInv, TurnInv

(* Every variable keeps to its domain. *)
THEOREM StreamTypeOK == Spec => []TypeOK
<1>1. StreamInv => TypeOK
  BY DEF StreamInv, TurnInv, TypeOK
<1> QED BY StreamInit, StreamNext, <1>1, PTL DEF Spec

-----------------------------------------------------------------------------
(* The quota.                                                              *)

(* What the chats hold is what each of them holds. *)
LEMMA HeldBy == \A x : x \in Held <=> \E c \in Chats : \E i \in DOMAIN events[c] : x = <<c, i>>
BY DEF Held

(* The chunks of one buffer are as many as it has. *)
LEMMA HeldOfOne ==
  ASSUME NEW c \in Chats, BuffersOK
  PROVE  /\ IsFiniteSet({c} \X DOMAIN events[c])
         /\ Cardinality({c} \X DOMAIN events[c]) = Len(events[c])
         /\ {c} \X DOMAIN events[c] \subseteq Held
<1>1. DOMAIN events[c] = 1 .. Len(events[c]) /\ Len(events[c]) \in Nat
  BY DEF BuffersOK
<1>2. IsFiniteSet(1 .. Len(events[c])) /\ Cardinality(1 .. Len(events[c])) = Len(events[c])
  <2> DEFINE n == Len(events[c])
  <2>1. n \in Nat /\ 1 \in Int /\ n \in Int
    BY <1>1
  <2> HIDE DEF n
  <2>2. IsFiniteSet(1 .. n) /\ Cardinality(1 .. n) = IF 1 > n THEN 0 ELSE n - 1 + 1
    BY <2>1, FS_Interval
  <2>3. Cardinality(1 .. n) = n
    BY <2>1, <2>2
  <2> QED BY <2>2, <2>3 DEF n
<1>3. IsFiniteSet({c}) /\ Cardinality({c}) = 1
  BY FS_Singleton
<1>4. /\ IsFiniteSet({c} \X DOMAIN events[c])
      /\ Cardinality({c} \X DOMAIN events[c]) = Len(events[c])
  <2> DEFINE D == DOMAIN events[c]
             one == {c}
  <2>1. IsFiniteSet(D) /\ Cardinality(D) = Len(events[c]) /\ IsFiniteSet(one) /\ Cardinality(one) = 1
    BY <1>1, <1>2, <1>3
  <2> HIDE DEF D, one
  <2>2. IsFiniteSet(one \X D) /\ Cardinality(one \X D) = Cardinality(one) * Cardinality(D)
    BY <2>1, FS_Product
  <2>3. Cardinality(one \X D) = Len(events[c])
    BY <1>1, <2>1, <2>2
  <2> QED BY <2>2, <2>3 DEF D, one
<1>5. {c} \X DOMAIN events[c] \subseteq Held
  BY DEF Held
<1> QED BY <1>1, <1>4, <1>5

(* Dropping or replacing a buffer reclaims exactly what it held: the       *)
(* subtraction is never cut off at zero.                                   *)
LEMMA InstallAccounts ==
  ASSUME BuffersOK, Accounting, NEW c \in Chats, NEW b, Install(c, b), total' = Reclaimed(c)
  PROVE  Accounting'
<1> DEFINE R == {c} \X DOMAIN events[c]
<1>1. IsFiniteSet(R) /\ Cardinality(R) = Len(events[c]) /\ R \in SUBSET Held
  BY HeldOfOne
<1>2. IsFiniteSet(Held) /\ total = Cardinality(Held) /\ total \in Nat /\ Len(events[c]) \in Nat
  BY DEF Accounting, BuffersOK
<1>3. Len(events[c]) <= total
  BY <1>1, <1>2, FS_Subset
<1>4. total' = total - Len(events[c])
  BY <1>2, <1>3 DEF Reclaimed
<1>5. Held' = Held \ R
  <2>1. \A d \in Chats : DOMAIN events'[d] = IF d = c THEN {} ELSE DOMAIN events[d]
    BY DEF Install, BuffersOK
  <2>2. \A x : x \in Held' <=> \E d \in Chats : \E i \in DOMAIN events'[d] : x = <<d, i>>
    BY DEF Held
  <2>3. \A x : x \in Held' <=> x \in Held /\ x \notin R
    BY <2>1, <2>2, HeldBy
  <2> QED BY <2>3
<1>6. Held \cap R = R
  BY <1>1
<1> HIDE DEF R
<1>7. IsFiniteSet(Held') /\ Cardinality(Held') = Cardinality(Held) - Cardinality(R)
  BY <1>2, <1>5, <1>6, FS_Difference
<1> QED BY <1>1, <1>2, <1>4, <1>7 DEF Accounting

(* A chunk is counted when it is recorded. *)
LEMMA AcceptAccounts ==
  ASSUME BuffersOK, Accounting, NEW c \in Chats, NEW t \in Turns, NEW kind \in Kinds,
         NEW part \in Parts, Accept(c, t, kind, part)
  PROVE  Accounting'
<1>1. CASE UNCHANGED <<events, total>>
  BY <1>1 DEF Accounting, Held
<1>2. CASE ~ UNCHANGED <<events, total>>
  <2> DEFINE chunk == [by |-> t, kind |-> kind, part |-> part]
             n == Len(events[c]) + 1
  <2>1. events' = [events EXCEPT ![c] = Append(@, chunk)] /\ total' = total + 1
    BY <1>2 DEF Accept
  <2>2. events[c] \in Seq(Chunks) /\ chunk \in Chunks /\ n \in Nat
    <3>1. events[c] \in Seq(Chunks) /\ chunk \in Chunks
      BY DEF BuffersOK, Chunks
    <3> QED BY <3>1
  <2>3. DOMAIN events'[c] = DOMAIN events[c] \cup {n} /\ n \notin DOMAIN events[c]
    BY <2>1, <2>2 DEF BuffersOK
  <2>4. \A d \in Chats : d # c => events'[d] = events[d]
    BY <2>1 DEF BuffersOK
  <2> HIDE DEF n
  <2>5. \A x : x \in Held' <=> \E d \in Chats : \E i \in DOMAIN events'[d] : x = <<d, i>>
    BY DEF Held
  <2>6. \A x : x \in Held' <=> x \in Held \/ x = <<c, n>>
    BY <2>3, <2>4, <2>5, HeldBy
  <2>7. Held' = Held \cup {<<c, n>>} /\ <<c, n>> \notin Held
    BY <2>3, <2>6, HeldBy
  <2>8. IsFiniteSet(Held') /\ Cardinality(Held') = Cardinality(Held) + 1
    BY <2>7, FS_AddElement DEF Accounting
  <2> QED BY <2>1, <2>8 DEF Accounting
<1> QED BY <1>1, <1>2

(* Steps that record nothing and drop nothing. *)
LEMMA RestAccounts == Accounting /\ UNCHANGED <<events, total>> => Accounting'
BY DEF Accounting, Held

(* Every step keeps the count. *)
LEMMA AccountingNext == BuffersOK /\ Accounting /\ [Next]_vars => Accounting'
<1> SUFFICES ASSUME BuffersOK, Accounting, [Next]_vars PROVE Accounting'
  OBVIOUS
<1>1. ASSUME NEW t \in Turns, TurnStep(t) PROVE Accounting'
  <2>0. ChatOf[t] \in Chats
    OBVIOUS
  <2>1. ASSUME NEW kind \in Kinds, NEW part \in Parts, Emit(t, kind, part) PROVE Accounting'
    BY <2>0, <2>1, AcceptAccounts, RestAccounts DEF Emit, content
  <2>2. CASE Create(t)
    BY <2>0, <2>2, InstallAccounts DEF Create
  <2>3. CASE HandlerEnds(t) \/ CloseTimer(t)
    BY <2>3, RestAccounts DEF HandlerEnds, CloseTimer, content
  <2>4. CASE (\E k \in Tabs \cup {None} : Post(t, k)) \/ PostFails(t) \/ TaskEnds(t)
    BY <2>4, RestAccounts DEF Post, PostFails, TaskEnds, buffers, content
  <2> QED
    BY <1>1, <2>1, <2>2, <2>3, <2>4 DEF TurnStep
<1>2. ASSUME NEW k \in Tabs, TabStep(k) PROVE Accounting'
  BY <1>2, RestAccounts
  DEF TabStep, Read, ReadDone, Drop, Resume, ResumeRefused, Leave, buffers, content
<1>3. ASSUME NEW c \in Chats, Cancel(c) \/ StopShowing(c) PROVE Accounting'
  BY <1>3, RestAccounts DEF Cancel, StopShowing, content
<1>4. ASSUME NEW c \in Chats, Cleanup(c) PROVE Accounting'
  BY <1>4, InstallAccounts DEF Cleanup
<1>5. CASE Drain
  BY <1>5, RestAccounts DEF Drain, buffers, content
<1>6. CASE Down
  <2>1. Held' = {} /\ total' = 0
    BY <1>6 DEF Down, Held
  <2> QED BY <2>1, FS_EmptySet DEF Accounting
<1>7. CASE UNCHANGED vars
  BY <1>7, RestAccounts DEF vars, buffers, content
<1> QED
  BY <1>1, <1>2, <1>3, <1>4, <1>5, <1>6, <1>7 DEF Next

(* totalEvents is always exactly the number of chunks that the registered  *)
(* buffers hold: the quota neither leaks nor runs below zero.              *)
THEOREM StreamAccounting == Spec => []Accounting
<1>1. Init => Accounting
  <2> SUFFICES ASSUME Init PROVE Accounting
    OBVIOUS
  <2>1. Held = {} /\ total = 0
    BY DEF Init, Held
  <2> QED BY <2>1, FS_EmptySet DEF Accounting
<1>2. StreamInv => BuffersOK
  BY DEF StreamInv
<1> QED BY <1>1, <1>2, StreamInit, StreamNext, AccountingNext, PTL DEF Spec

-----------------------------------------------------------------------------
(* How tabs, connections and buffers hang together.                        *)

(* The turns that have created their buffer. *)
Begun == {t \in Turns : state[t] \in {"running", "finished", "closing", "done"}}

(* A tab waits for the answer to at most one POST, and without a cursor.   *)
Senders ==
  /\ \A t \in Turns : state[t] = "posted" /\ poster[t] \in Tabs => phase[poster[t]] = "sent"
  /\ \A t, u \in Turns :
       /\ state[t] = "posted" /\ state[u] = "posted"
       /\ poster[t] = poster[u] /\ poster[t] \in Tabs
       => t = u
  /\ \A k \in Tabs : phase[k] = "sent" => cursor[k] = 0

(* Only a connection that is being read carries frames, or can be closed.  *)
Quiet == \A k \in Tabs : phase[k] # "reading" => wire[k] = <<>> /\ k \notin ended

(* A buffer is of a turn of its chat that has begun.                       *)
Owned ==
  \A c \in Chats :
    /\ stream[c] # None => stream[c] \in Begun /\ ChatOf[stream[c]] = c
    /\ active[c] => stream[c] # None

(* A subscriber reads the active buffer of the chat, on an open connection. *)
Following ==
  \A c \in Chats : \A k \in subs[c] :
    active[c] /\ phase[k] = "reading" /\ of[k] = stream[c] /\ k \notin ended

(* A tab knows only of turns that have begun. *)
Known == \A k \in Tabs : of[k] # None => of[k] \in Begun

Linked == Senders /\ Quiet /\ Owned /\ Following /\ Known

(* A tab is subscribed to one buffer. *)
LEMMA OneBuffer ==
  ASSUME Linked, NEW c \in Chats, NEW d \in Chats, NEW k \in subs[c], k \in subs[d]
  PROVE  c = d
BY DEF Linked, Owned, Following

(* At first nobody has begun, subscribed or read. *)
LEMMA LinkedInit == Init => Linked
BY DEF Init, Linked, Senders, Quiet, Owned, Following, Known

(* A POST: its tab waits for the answer. *)
LEMMA PostLinked ==
  ASSUME StreamInv, Linked, NEW t \in Turns, NEW k \in Tabs \cup {None}, Post(t, k)
  PROVE  Linked'
<1>1. /\ \A u \in Turns : state'[u] = IF u = t THEN "posted" ELSE state[u]
      /\ \A u \in Turns : poster'[u] = IF u = t THEN k ELSE poster[u]
      /\ \A j \in Tabs : phase'[j] = IF j = k THEN "sent" ELSE phase[j]
      /\ \A j \in Tabs : cursor'[j] = IF j = k THEN 0 ELSE cursor[j]
      /\ state[t] = "idle"
      /\ k \in Tabs => phase[k] \in {"ready", "dropped", "lost"}
      /\ UNCHANGED <<buffers, subs, wire, ended, of>>
  BY DEF Post, Tell, StreamInv, TurnInv, TurnsOK, TabsOK
<1>2. Begun' = Begun
  BY <1>1 DEF Begun
<1>3. Senders'
  BY <1>1 DEF Linked, Senders
<1>4. Quiet' /\ Owned' /\ Known'
  BY <1>1, <1>2 DEF Linked, Quiet, Owned, Known, buffers
<1>5. Following'
  <2>1. \A c \in Chats : subs[c] \subseteq Tabs
    BY DEF StreamInv, TabsOK
  <2> QED BY <1>1, <2>1 DEF Linked, Following, buffers
<1> QED BY <1>3, <1>4, <1>5 DEF Linked

(* Its tab waits no more. *)
LEMMA PostFailsLinked ==
  ASSUME StreamInv, Linked, NEW t \in Turns, PostFails(t)
  PROVE  Linked'
<1>1. /\ \A u \in Turns : state'[u] = IF u = t THEN "failed" ELSE state[u]
      /\ \A j \in Tabs : phase'[j] = IF j = poster[t] THEN "ready" ELSE phase[j]
      /\ state[t] = "posted"
      /\ UNCHANGED <<poster, cursor, buffers, subs, wire, ended, of>>
  BY DEF PostFails, Tell, StreamInv, TurnInv, TurnsOK, TabsOK
<1>2. poster[t] \in Tabs => phase[poster[t]] = "sent"
  BY <1>1 DEF Linked, Senders
<1>3. Begun' = Begun
  BY <1>1 DEF Begun
<1>4. Senders'
  BY <1>1 DEF Linked, Senders
<1>5. Quiet' /\ Owned' /\ Known'
  BY <1>1, <1>2, <1>3 DEF Linked, Quiet, Owned, Known, buffers
<1>6. Following'
  <2>1. \A c \in Chats : subs[c] \subseteq Tabs
    BY DEF StreamInv, TabsOK
  <2> QED BY <1>1, <1>2, <2>1 DEF Linked, Following, buffers
<1> QED BY <1>4, <1>5, <1>6 DEF Linked

(* Its tab becomes the only subscriber of the new buffer. *)
LEMMA CreateLinked ==
  ASSUME StreamInv, Linked, NEW t \in Turns, Create(t)
  PROVE  Linked'
<1> DEFINE c == ChatOf[t]
           k == poster[t]
<1>0. c \in Chats
  OBVIOUS
<1>1. /\ \A u \in Turns : state'[u] = IF u = t THEN "running" ELSE state[u]
      /\ \A u \in Turns : poster'[u] = IF u = t THEN None ELSE poster[u]
      /\ state[t] = "posted" /\ UNCHANGED <<wire, cursor>>
  BY DEF Create, StreamInv, TurnInv, TurnsOK
<1>2. /\ \A d \in Chats : stream'[d] = IF d = c THEN t ELSE stream[d]
      /\ \A d \in Chats : active'[d] = IF d = c THEN t # None ELSE active[d]
      /\ \A d \in Chats : subs'[d] = IF d = c THEN {k} \cap Tabs ELSE subs[d]
      /\ ended' = ended \cup subs[c]
  BY <1>0 DEF Create, Install, StreamInv, BuffersOK, TabsOK
<1>3. /\ \A j \in Tabs : phase'[j] = IF j = k THEN "reading" ELSE phase[j]
      /\ \A j \in Tabs : of'[j] = IF j = k THEN t ELSE of[j]
  BY DEF Create, Reads, StreamInv, TabsOK
<1>4. k \in Tabs => phase[k] = "sent"
  BY <1>1 DEF Linked, Senders
<1>5. \A d \in Chats : subs[d] \subseteq Tabs /\ \A j \in subs[d] : phase[j] = "reading" /\ j # k
  BY <1>4 DEF StreamInv, TabsOK, Linked, Following
<1>6. None \notin Tabs /\ t # None
  OBVIOUS
<1>7. Begun' = Begun \cup {t}
  BY <1>1 DEF Begun
<1> HIDE DEF c, k
<1>8. Senders'
  <2>1. \A u \in Turns : state'[u] = "posted" => u # t /\ state[u] = "posted" /\ poster'[u] = poster[u]
    BY <1>1
  <2>2. \A u \in Turns : state'[u] = "posted" /\ poster[u] \in Tabs => poster[u] # k
    BY <1>1, <2>1 DEF Linked, Senders, k
  <2>3. \A j \in Tabs : phase'[j] = "sent" => cursor'[j] = 0
    BY <1>1, <1>3 DEF Linked, Senders
  <2>4. \A u \in Turns : state'[u] = "posted" /\ poster'[u] \in Tabs => phase'[poster'[u]] = "sent"
    BY <1>3, <2>1, <2>2 DEF Linked, Senders
  <2>5. \A u, v \in Turns : /\ state'[u] = "posted" /\ state'[v] = "posted"
                           /\ poster'[u] = poster'[v] /\ poster'[u] \in Tabs => u = v
    BY <2>1 DEF Linked, Senders
  <2> QED BY <2>3, <2>4, <2>5 DEF Senders
<1>9. Quiet'
  BY <1>1, <1>2, <1>3, <1>5, <1>0 DEF Linked, Quiet
<1>10. Owned'
  BY <1>2, <1>6, <1>7 DEF Linked, Owned, c
<1>11. Following'
  <2> SUFFICES ASSUME NEW d \in Chats, NEW j \in subs'[d]
               PROVE  active'[d] /\ phase'[j] = "reading" /\ of'[j] = stream'[d] /\ j \notin ended'
    BY DEF Following
  <2>1. CASE d = c
    <3>1. j = k /\ k \in Tabs
      BY <1>2, <2>1
    <3>2. k \notin ended /\ k \notin subs[c]
      BY <1>0, <1>4, <1>5, <3>1 DEF Linked, Quiet
    <3> QED BY <1>2, <1>3, <1>6, <2>1, <3>1, <3>2
  <2>2. CASE d # c
    <3>1. j \in subs[d] /\ j \in Tabs /\ j # k /\ j \notin subs[c]
      BY <1>0, <1>2, <1>5, <2>2, OneBuffer
    <3> QED BY <1>2, <1>3, <2>2, <3>1 DEF Linked, Following
  <2> QED BY <2>1, <2>2
<1>12. Known'
  BY <1>3, <1>7 DEF Linked, Known
<1> QED BY <1>8, <1>9, <1>10, <1>11, <1>12 DEF Linked

(* A chunk goes to subscribers, who read. *)
LEMMA EmitLinked ==
  ASSUME StreamInv, Linked, NEW t \in Turns, NEW kind \in Kinds, NEW part \in Parts,
         Emit(t, kind, part)
  PROVE  Linked'
<1>1. UNCHANGED <<turns, stream, active, subs, phase, of, cursor, ended>>
  BY DEF Emit, tabs
<1>2. \A k \in Tabs : k \notin subs[ChatOf[t]] => wire'[k] = wire[k]
  BY DEF Emit, Accept
<1>3. \A k \in Tabs : phase[k] # "reading" => wire'[k] = wire[k]
  BY <1>2 DEF Linked, Following
<1>4. Quiet'
  BY <1>1, <1>3 DEF Linked, Quiet
<1>5. Senders' /\ Owned' /\ Following' /\ Known'
  BY <1>1 DEF Linked, Senders, Owned, Following, Known, Begun, turns
<1> QED BY <1>4, <1>5 DEF Linked

(* A buffer that is finished, by whoever: nobody follows it any more. *)
LEMMA FinishLinked ==
  ASSUME StreamInv, Linked, NEW c \in Chats, Finish(c),
         \A t \in Turns : state[t] = "posted" <=> state'[t] = "posted", Begun' = Begun,
         UNCHANGED <<poster, stream, phase, of, cursor, wire>>
  PROVE  Linked'
<1>1. /\ \A d \in Chats : active'[d] = IF d = c THEN FALSE ELSE active[d]
      /\ \A d \in Chats : subs'[d] = IF d = c THEN {} ELSE subs[d]
      /\ ended' = ended \cup subs[c]
  BY DEF Finish, Close, StreamInv, BuffersOK
<1>2. Senders' /\ Known'
  BY DEF Linked, Senders, Known
<1>3. Owned'
  BY <1>1 DEF Linked, Owned
<1>4. Quiet'
  BY <1>1 DEF Linked, Quiet, Following
<1>5. Following'
  <2> SUFFICES ASSUME NEW d \in Chats, NEW k \in subs'[d]
               PROVE  active'[d] /\ phase'[k] = "reading" /\ of'[k] = stream'[d] /\ k \notin ended'
    BY DEF Following
  <2>1. d # c /\ k \in subs[d]
    BY <1>1
  <2>2. k \notin subs[c]
    BY <2>1, OneBuffer
  <2> QED BY <1>1, <2>1, <2>2 DEF Linked, Following
<1> QED BY <1>2, <1>3, <1>4, <1>5 DEF Linked

(* A turn that goes on, and leaves its buffer alone. *)
LEMMA RestLinked ==
  ASSUME Linked, \A t \in Turns : state[t] = "posted" <=> state'[t] = "posted", Begun' = Begun,
         UNCHANGED <<poster, stream, active, subs, phase, of, cursor, wire, ended>>
  PROVE  Linked'
BY DEF Linked, Senders, Quiet, Owned, Following, Known

(* A turn that ends finishes its buffer, if it is still the one of the chat. *)
LEMMA EndLinked ==
  ASSUME StreamInv, Linked, NEW t \in Turns, HandlerEnds(t) \/ CloseTimer(t) \/ TaskEnds(t)
  PROVE  Linked'
<1>1. /\ \A u \in Turns : u # t => state'[u] = state[u]
      /\ state[t] \in {"running", "finished", "closing"}
      /\ state'[t] \in {"finished", "closing", "done"}
      /\ UNCHANGED <<poster, stream, phase, of, cursor, wire>>
  BY DEF HandlerEnds, CloseTimer, TaskEnds, StreamInv, TurnInv, TurnsOK, tabs, buffers
<1>2. Begun' = Begun /\ \A u \in Turns : state[u] = "posted" <=> state'[u] = "posted"
  BY <1>1 DEF Begun
<1>3. Finish(ChatOf[t]) \/ UNCHANGED <<active, subs, ended>>
  BY DEF HandlerEnds, CloseTimer, TaskEnds, FinishIfCurrent, buffers
<1>4. ChatOf[t] \in Chats
  OBVIOUS
<1> QED BY <1>1, <1>2, <1>3, <1>4, FinishLinked, RestLinked

(* A stream that is stopped is finished. *)
LEMMA CancelLinked ==
  ASSUME StreamInv, Linked, NEW c \in Chats, Cancel(c) \/ StopShowing(c)
  PROVE  Linked'
<1>1. Finish(c) /\ UNCHANGED <<state, poster, stream, phase, of, cursor, wire>>
  BY DEF Cancel, StopShowing, tabs, turns
<1>2. Begun' = Begun
  BY <1>1 DEF Begun
<1> QED BY <1>1, <1>2, FinishLinked

(* A buffer that is dropped loses its subscribers. *)
LEMMA CleanupLinked ==
  ASSUME StreamInv, Linked, NEW c \in Chats, Cleanup(c)
  PROVE  Linked'
<1>1. /\ \A d \in Chats : active'[d] = IF d = c THEN FALSE ELSE active[d]
      /\ \A d \in Chats : stream'[d] = IF d = c THEN None ELSE stream[d]
      /\ \A d \in Chats : subs'[d] = IF d = c THEN {} ELSE subs[d]
      /\ ended' = ended \cup subs[c]
      /\ UNCHANGED <<state, poster, phase, of, cursor, wire>>
  <2>1. /\ \A d \in Chats : active'[d] = IF d = c THEN None # None ELSE active[d]
        /\ \A d \in Chats : stream'[d] = IF d = c THEN None ELSE stream[d]
    BY DEF Cleanup, Install, StreamInv, BuffersOK
  <2>2. /\ \A d \in Chats : subs'[d] = IF d = c THEN {} ELSE subs[d]
        /\ ended' = ended \cup subs[c]
    BY DEF Cleanup, Close
  <2>3. UNCHANGED <<state, poster, phase, of, cursor, wire>>
    BY DEF Cleanup, tabs, turns
  <2> QED BY <2>1, <2>2, <2>3
<1>2. Begun' = Begun
  BY <1>1 DEF Begun
<1>3. Senders' /\ Known'
  BY <1>1, <1>2 DEF Linked, Senders, Known
<1>4. Owned'
  BY <1>1, <1>2 DEF Linked, Owned
<1>5. Quiet'
  BY <1>1 DEF Linked, Quiet, Following
<1>6. Following'
  <2> SUFFICES ASSUME NEW d \in Chats, NEW k \in subs'[d]
               PROVE  active'[d] /\ phase'[k] = "reading" /\ of'[k] = stream'[d] /\ k \notin ended'
    BY DEF Following
  <2>1. d # c /\ k \in subs[d]
    BY <1>1
  <2>2. k \notin subs[c]
    BY <2>1, OneBuffer
  <2> QED BY <1>1, <2>1, <2>2 DEF Linked, Following
<1> QED BY <1>3, <1>4, <1>5, <1>6 DEF Linked

(* So do all of them when the daemon goes down. *)
LEMMA DownLinked ==
  ASSUME StreamInv, Linked, Down
  PROVE  Linked'
<1>1. /\ \A d \in Chats : ~ active'[d] /\ stream'[d] = None /\ subs'[d] = {}
      /\ ended' = ended \cup UNION {subs[c] : c \in Chats}
      /\ UNCHANGED <<state, poster, phase, of, cursor, wire>>
  BY DEF Down, Close, tabs
<1>2. Begun' = Begun
  BY <1>1 DEF Begun
<1>3. Senders' /\ Known' /\ Owned' /\ Following'
  BY <1>1, <1>2 DEF Linked, Senders, Known, Owned, Following
<1>4. Quiet'
  BY <1>1 DEF Linked, Quiet, Following
<1> QED BY <1>3, <1>4 DEF Linked

(* A tab that reads stays subscribed. *)
LEMMA ReadLinked ==
  ASSUME StreamInv, Linked, NEW k \in Tabs, Read(k)
  PROVE  Linked'
<1>1. /\ \A j \in Tabs : j # k => wire'[j] = wire[j] /\ cursor'[j] = cursor[j]
      /\ phase[k] = "reading"
      /\ UNCHANGED <<state, poster, stream, active, subs, phase, of, ended>>
  BY DEF Read, StreamInv, TabsOK, turns, buffers
<1>2. Begun' = Begun
  BY <1>1 DEF Begun
<1>3. Senders' /\ Quiet'
  BY <1>1 DEF Linked, Senders, Quiet
<1>4. Owned' /\ Following' /\ Known'
  BY <1>1, <1>2 DEF Linked, Owned, Following, Known
<1> QED BY <1>3, <1>4 DEF Linked

(* A tab that goes to a phase in which it neither reads nor waits, its     *)
(* connection closed, whether or not it forgets what it was reading.       *)
LEMMA AwayLinked ==
  ASSUME StreamInv, Linked, NEW k \in Tabs, NEW next \in {"opening", "ready", "dropped", "lost"},
         Tell(k, next),
         wire'[k] = <<>>, ended' = ended \ {k},
         \A j \in Tabs : j # k => wire'[j] = wire[j] /\ cursor'[j] = cursor[j] /\ of'[j] = of[j],
         of'[k] \in {of[k], None},
         \A c \in Chats : subs'[c] = subs[c] \ {k},
         \A t \in Turns : poster'[t] = poster[t] \/ (poster[t] = k /\ poster'[t] = None),
         phase[k] = "sent" => \A t \in Turns : poster'[t] # k,
         UNCHANGED <<state, stream, active>>
  PROVE  Linked'
<1>1. \A j \in Tabs : phase'[j] = IF j = k THEN next ELSE phase[j]
  BY DEF Tell
<1>2. Begun' = Begun
  BY DEF Begun
<1>3. Owned' /\ Quiet' /\ Known'
  BY <1>1, <1>2 DEF Linked, Owned, Quiet, Known
<1>4. Following'
  <2>1. \A c \in Chats : subs[c] \subseteq Tabs
    BY DEF StreamInv, TabsOK
  <2> QED BY <1>1, <2>1 DEF Linked, Following
<1>5. Senders'
  <2>1. None \notin Tabs
    OBVIOUS
  <2>2. \A t \in Turns : poster'[t] \in Tabs => poster'[t] = poster[t]
    BY <2>1
  <2>3. \A t \in Turns : state[t] = "posted" => poster'[t] # k
    BY <2>2 DEF Linked, Senders
  <2> QED BY <1>1, <2>2, <2>3 DEF Linked, Senders
<1> QED BY <1>3, <1>4, <1>5 DEF Linked

(* The ways in which a tab stops reading. *)
LEMMA TabAwayLinked ==
  ASSUME StreamInv, Linked, NEW k \in Tabs, ReadDone(k) \/ Drop(k) \/ ResumeRefused(k)
  PROVE  Linked'
<1>1. /\ phase[k] # "sent" /\ UNCHANGED <<state, poster, stream, active, cursor>>
  BY DEF ReadDone, Drop, ResumeRefused, turns, buffers
<1>2. PICK next \in {"ready", "dropped", "lost"} : Tell(k, next)
  BY DEF ReadDone, Drop, ResumeRefused
<1>3. of'[k] \in {of[k], None} /\ \A j \in Tabs : j # k => of'[j] = of[j]
  BY DEF ReadDone, Drop, ResumeRefused, Forget, StreamInv, TabsOK
<1>4. wire'[k] = <<>> /\ \A j \in Tabs : j # k => wire'[j] = wire[j]
  BY DEF ReadDone, Drop, ResumeRefused, Disconnect, StreamInv, TabsOK, Linked, Quiet
<1>5. ended' = ended \ {k}
  BY DEF ReadDone, Drop, ResumeRefused, Disconnect, Linked, Quiet
<1>6. \A c \in Chats : subs'[c] = subs[c] \ {k}
  <2>1. CASE ReadDone(k) \/ ResumeRefused(k)
    <3>1. subs' = subs /\ \A c \in Chats : k \notin subs[c]
      BY <2>1 DEF ReadDone, ResumeRefused, Linked, Following
    <3> QED BY <3>1
  <2>2. CASE Drop(k)
    BY <2>2 DEF Drop, Disconnect
  <2> QED BY <2>1, <2>2
<1>7. \A j \in Tabs : j # k => wire'[j] = wire[j] /\ cursor'[j] = cursor[j] /\ of'[j] = of[j]
  BY <1>1, <1>3, <1>4
<1>8. /\ \A t \in Turns : poster'[t] = poster[t] \/ (poster[t] = k /\ poster'[t] = None)
      /\ phase[k] = "sent" => \A t \in Turns : poster'[t] # k
  BY <1>1
<1>9. next \in {"opening", "ready", "dropped", "lost"}
  BY <1>2
<1> QED BY <1>1, <1>2, <1>3, <1>4, <1>5, <1>6, <1>7, <1>8, <1>9, AwayLinked

(* A tab that leaves waits for no answer either. *)
LEMMA LeaveLinked ==
  ASSUME StreamInv, Linked, NEW k \in Tabs, NEW c \in Chats, NEW reload \in BOOLEAN, Leave(k, c, reload)
  PROVE  Linked'
<1>1. /\ Tell(k, "opening") /\ ended' = ended \ {k} /\ \A d \in Chats : subs'[d] = subs[d] \ {k}
      /\ UNCHANGED <<state, stream, active>>
  BY DEF Leave, Disconnect, buffers
<1>2. /\ wire'[k] = <<>> /\ of'[k] = None
      /\ \A j \in Tabs : j # k => wire'[j] = wire[j] /\ cursor'[j] = cursor[j] /\ of'[j] = of[j]
  BY DEF Leave, Disconnect, Forget, StreamInv, TabsOK
<1>3. \A t \in Turns : poster'[t] = IF poster[t] = k THEN None ELSE poster[t]
  BY DEF Leave
<1>4. k # None
  OBVIOUS
<1>5. /\ \A t \in Turns : poster'[t] = poster[t] \/ (poster[t] = k /\ poster'[t] = None)
      /\ \A t \in Turns : poster'[t] # k
  BY <1>3, <1>4
<1>6. "opening" \in {"opening", "ready", "dropped", "lost"} /\ of'[k] \in {of[k], None}
  BY <1>2
<1> QED BY <1>1, <1>2, <1>5, <1>6, AwayLinked

(* A tab that resumes follows the active buffer of its chat. *)
LEMMA ResumeLinked ==
  ASSUME StreamInv, Linked, NEW k \in Tabs, Resume(k)
  PROVE  Linked'
<1> DEFINE c == shown[k]
<1>0. c \in Chats /\ active[c] /\ phase[k] \in {"opening", "dropped"}
  BY DEF Resume, StreamInv, TabsOK
<1>1. /\ \A d \in Chats : subs'[d] = IF d = c THEN subs[d] \cup {k} ELSE subs[d]
      /\ \A j \in Tabs : j # k => wire'[j] = wire[j]
      /\ \A j \in Tabs : of'[j] = IF j = k THEN stream[c] ELSE of[j]
      /\ \A j \in Tabs : phase'[j] = IF j = k THEN "reading" ELSE phase[j]
      /\ ended' = ended \ {k}
      /\ UNCHANGED <<state, poster, stream, active, cursor>>
  BY DEF Resume, Reads, StreamInv, TabsOK, turns, buffers
<1> HIDE DEF c
<1>2. Begun' = Begun
  BY <1>1 DEF Begun
<1>3. \A d \in Chats : subs[d] \subseteq Tabs /\ k \notin subs[d]
  BY <1>0 DEF StreamInv, TabsOK, Linked, Following
<1>4. Senders'
  <2>1. \A t \in Turns : state[t] = "posted" => poster[t] # k
    BY <1>0 DEF Linked, Senders
  <2> QED BY <1>1, <2>1 DEF Linked, Senders
<1>5. Quiet' /\ Owned' /\ Known'
  BY <1>0, <1>1, <1>2 DEF Linked, Quiet, Owned, Known
<1>6. Following'
  <2> SUFFICES ASSUME NEW d \in Chats, NEW j \in subs'[d]
               PROVE  active'[d] /\ phase'[j] = "reading" /\ of'[j] = stream'[d] /\ j \notin ended'
    BY DEF Following
  <2>1. CASE j = k
    <3>1. d = c
      BY <1>1, <1>3, <2>1
    <3> QED BY <1>0, <1>1, <2>1, <3>1
  <2>2. CASE j # k
    <3>1. j \in subs[d] /\ j \in Tabs
      BY <1>1, <1>3, <2>2
    <3> QED BY <1>1, <2>2, <3>1 DEF Linked, Following
  <2> QED BY <2>1, <2>2
<1> QED BY <1>4, <1>5, <1>6 DEF Linked

(* Every step keeps them linked. *)
LEMMA LinkedNext == StreamInv /\ Linked /\ [Next]_vars => Linked'
<1> SUFFICES ASSUME StreamInv, Linked, [Next]_vars PROVE Linked'
  OBVIOUS
<1>1. ASSUME NEW t \in Turns, TurnStep(t) PROVE Linked'
  BY <1>1, PostLinked, PostFailsLinked, CreateLinked, EmitLinked, EndLinked DEF TurnStep
<1>2. ASSUME NEW k \in Tabs, TabStep(k) PROVE Linked'
  BY <1>2, ReadLinked, TabAwayLinked, LeaveLinked, ResumeLinked DEF TabStep
<1>3. CASE Drain \/ UNCHANGED vars
  <2>1. UNCHANGED <<state, poster, stream, active, subs, phase, of, cursor, wire, ended>>
    BY <1>3 DEF Drain, vars, turns, buffers, tabs
  <2>2. Begun' = Begun
    BY <2>1 DEF Begun
  <2> QED BY <2>1, <2>2, RestLinked
<1> QED BY <1>1, <1>2, <1>3, CancelLinked, CleanupLinked, DownLinked DEF Next

-----------------------------------------------------------------------------
(* The parts that are open once the frames of a wire are read.             *)

Opens(f, p) == f.chunk.part = p /\ f.chunk.kind = "start"
Closes(f, p) == f.chunk.part = p /\ f.chunk.kind = "end"

(* What is open after a frame, given what was open before it. *)
Told(open, f) ==
  IF f.chunk.kind = "start" THEN open \cup {f.chunk.part}
  ELSE IF f.chunk.kind = "end" THEN open \ {f.chunk.part} ELSE open

(* What is open after all the frames of w. *)
OpenIn(open, w) ==
  {p \in Parts :
     \/ p \in open /\ \A i \in DOMAIN w : ~ Closes(w[i], p)
     \/ \E i \in DOMAIN w : Opens(w[i], p) /\ \A j \in DOMAIN w : j > i => ~ Closes(w[j], p)}

(* The same set, with indices as OpenAfter has them. *)
LEMMA OpenFormula ==
  ASSUME NEW open, NEW w \in Seq(Frames)
  PROVE  OpenIn(open, w) =
           {p \in Parts : \/ p \in open /\ \A i \in 1 .. Len(w) : ~ Closes(w[i], p)
                          \/ \E i \in 1 .. Len(w) :
                               Opens(w[i], p) /\ \A j \in i + 1 .. Len(w) : ~ Closes(w[j], p)}
<1> DEFINE n == Len(w)
<1>1. n \in Nat /\ DOMAIN w = 1 .. n
  OBVIOUS
<1>2. \A i, j \in 1 .. n : j > i <=> j \in i + 1 .. n
  <2> HIDE DEF n
  <2> QED BY <1>1
<1>3. \A i \in 1 .. n : \A j \in i + 1 .. n : j \in 1 .. n /\ j > i
  <2> HIDE DEF n
  <2> QED BY <1>1
<1> HIDE DEF n
<1>4. \A p : \A i \in 1 .. n :
        (\A j \in i + 1 .. n : ~ Closes(w[j], p)) <=> (\A j \in 1 .. n : j > i => ~ Closes(w[j], p))
  BY <1>2, <1>3
<1>5. OpenIn(open, w) =
        {p \in Parts : \/ p \in open /\ \A i \in 1 .. n : ~ Closes(w[i], p)
                       \/ \E i \in 1 .. n : Opens(w[i], p) /\ \A j \in i + 1 .. n : ~ Closes(w[j], p)}
  BY <1>1, <1>4 DEF OpenIn
<1> QED BY <1>5 DEF n

(* So a tab is in step, now and after a step, by what its wire leaves open. *)
LEMMA InStepNow ==
  ASSUME TabsOK, NEW k \in Tabs
  PROVE  InStep(k) <=> \A c \in Chats : k \in subs[c] => OpenIn(parts[k], wire[k]) = telling[c]
<1>1. wire[k] \in Seq(Frames)
  BY DEF TabsOK
<1>2. OpenAfter(k, Len(wire[k])) =
        {p \in Parts :
           \/ p \in parts[k] /\ \A i \in 1 .. Len(wire[k]) : ~ Closes(wire[k][i], p)
           \/ \E i \in 1 .. Len(wire[k]) :
                Opens(wire[k][i], p) /\ \A j \in i + 1 .. Len(wire[k]) : ~ Closes(wire[k][j], p)}
  BY DEF OpenAfter, Opens, Closes
<1>3. OpenAfter(k, Len(wire[k])) = OpenIn(parts[k], wire[k])
  BY <1>1, <1>2, OpenFormula
<1> QED BY <1>3 DEF InStep

LEMMA InStepThen ==
  ASSUME TabsOK', NEW k \in Tabs
  PROVE  InStep(k)' <=> \A c \in Chats : k \in subs'[c] => OpenIn(parts'[k], wire'[k]) = telling'[c]
<1>1. wire'[k] \in Seq(Frames)
  BY DEF TabsOK
<1>2. OpenAfter(k, Len(wire[k]))' =
        {p \in Parts :
           \/ p \in parts'[k] /\ \A i \in 1 .. Len(wire'[k]) : ~ Closes(wire'[k][i], p)
           \/ \E i \in 1 .. Len(wire'[k]) :
                Opens(wire'[k][i], p) /\ \A j \in i + 1 .. Len(wire'[k]) : ~ Closes(wire'[k][j], p)}
  BY DEF OpenAfter, Opens, Closes
<1>3. OpenAfter(k, Len(wire[k]))' = OpenIn(parts'[k], wire'[k])
  BY <1>1, <1>2, OpenFormula
<1> QED BY <1>3 DEF InStep

(* A frame at the end of the wire tells last. *)
LEMMA OpenAppend ==
  ASSUME NEW open, NEW w \in Seq(Frames), NEW f \in Frames
  PROVE  OpenIn(open, Append(w, f)) = Told(OpenIn(open, w), f)
<1> DEFINE v == Append(w, f)
           n == Len(w) + 1
<1>1. /\ n \in Nat /\ DOMAIN w = 1 .. n - 1 /\ DOMAIN v = 1 .. n /\ n \in 1 .. n
      /\ \A i \in 1 .. n - 1 : v[i] = w[i]
      /\ v[n] = f
  OBVIOUS
<1>2. f.chunk.part \in Parts /\ f.chunk.kind \in Kinds
  BY DEF Frames, Chunks
<1> HIDE DEF v, n
<1>3. /\ \A i \in 1 .. n : i = n \/ i \in 1 .. n - 1
      /\ \A i \in 1 .. n - 1 : i \in 1 .. n /\ n > i
      /\ \A i \in 1 .. n : ~ (i > n)
  BY <1>1
<1>4. ASSUME NEW p \in Parts
      PROVE  p \in OpenIn(open, v) <=> (p \in OpenIn(open, w) /\ ~ Closes(f, p)) \/ Opens(f, p)
  <2>1. (\A i \in 1 .. n : ~ Closes(v[i], p)) <=> (\A i \in 1 .. n - 1 : ~ Closes(w[i], p)) /\ ~ Closes(f, p)
    BY <1>1, <1>3
  <2>2. ASSUME NEW i \in 1 .. n - 1
        PROVE  (\A j \in 1 .. n : j > i => ~ Closes(v[j], p))
                 <=> (\A j \in 1 .. n - 1 : j > i => ~ Closes(w[j], p)) /\ ~ Closes(f, p)
    BY <1>1, <1>3
  <2>3. \A j \in 1 .. n : j > n => ~ Closes(v[j], p)
    BY <1>3
  <2> DEFINE After(i) == \A j \in 1 .. n : j > i => ~ Closes(v[j], p)
             Before(i) == \A j \in 1 .. n - 1 : j > i => ~ Closes(w[j], p)
  <2>4. /\ \A i \in 1 .. n - 1 : After(i) <=> Before(i) /\ ~ Closes(f, p)
        /\ After(n)
    BY <2>2, <2>3
  <2>5. \A i \in 1 .. n - 1 : Opens(v[i], p) <=> Opens(w[i], p)
    BY <1>1
  <2>6. Opens(v[n], p) <=> Opens(f, p)
    BY <1>1
  <2> HIDE DEF After, Before
  <2>7. (\E i \in 1 .. n : Opens(v[i], p) /\ After(i))
          <=> \/ (\E i \in 1 .. n - 1 : Opens(w[i], p) /\ Before(i)) /\ ~ Closes(f, p)
              \/ Opens(f, p)
    <3>1. ASSUME NEW i \in 1 .. n, Opens(v[i], p), After(i), ~ Opens(f, p)
          PROVE  (\E l \in 1 .. n - 1 : Opens(w[l], p) /\ Before(l)) /\ ~ Closes(f, p)
      <4>1. i \in 1 .. n - 1
        BY <1>3, <2>6, <3>1
      <4> QED BY <2>4, <2>5, <3>1, <4>1
    <3>2. ASSUME NEW i \in 1 .. n - 1, Opens(w[i], p), Before(i), ~ Closes(f, p)
          PROVE  \E l \in 1 .. n : Opens(v[l], p) /\ After(l)
      BY <1>3, <2>4, <2>5, <3>2
    <3>3. ASSUME Opens(f, p) PROVE \E l \in 1 .. n : Opens(v[l], p) /\ After(l)
      BY <1>1, <2>4, <2>6, <3>3
    <3> QED BY <3>1, <3>2, <3>3
  <2> USE DEF After, Before
  <2>8. p \in OpenIn(open, v) <=>
          \/ p \in open /\ \A i \in 1 .. n : ~ Closes(v[i], p)
          \/ \E i \in 1 .. n : Opens(v[i], p) /\ After(i)
    BY <1>1 DEF OpenIn
  <2>9. p \in OpenIn(open, w) <=>
          \/ p \in open /\ \A i \in 1 .. n - 1 : ~ Closes(w[i], p)
          \/ \E i \in 1 .. n - 1 : Opens(w[i], p) /\ Before(i)
    BY <1>1 DEF OpenIn
  <2> HIDE DEF After, Before
  <2> QED BY <2>1, <2>7, <2>8, <2>9
<1>5. \A p \in Parts : p \in Told(OpenIn(open, w), f) <=>
        (p \in OpenIn(open, w) /\ ~ Closes(f, p)) \/ Opens(f, p)
  BY <1>2 DEF Told, Opens, Closes, Kinds
<1>6. OpenIn(open, v) \subseteq Parts /\ Told(OpenIn(open, w), f) \subseteq Parts
  BY <1>2 DEF OpenIn, Told
<1>7. OpenIn(open, v) = Told(OpenIn(open, w), f)
  BY <1>4, <1>5, <1>6
<1> QED BY <1>7 DEF v

(* A frame that is read has told first. *)
LEMMA OpenTail ==
  ASSUME NEW open, NEW w \in Seq(Frames), w # <<>>
  PROVE  OpenIn(open, w) = OpenIn(Told(open, Head(w)), Tail(w))
<1> DEFINE v == Tail(w)
           n == Len(w)
           f == Head(w)
<1>1. /\ n \in Nat /\ DOMAIN w = 1 .. n /\ DOMAIN v = 1 .. n - 1 /\ 1 \in 1 .. n
      /\ \A i \in 1 .. n - 1 : v[i] = w[i + 1]
      /\ w[1] = f /\ f \in Frames
  OBVIOUS
<1>2. f.chunk.part \in Parts /\ f.chunk.kind \in Kinds
  BY <1>1 DEF Frames, Chunks
<1> HIDE DEF v, n, f
<1>3. /\ \A i \in 1 .. n : i = 1 \/ (i - 1 \in 1 .. n - 1 /\ (i - 1) + 1 = i /\ i > 1)
      /\ \A i \in 1 .. n - 1 : i + 1 \in 1 .. n /\ i + 1 > 1
      /\ \A i, j \in 1 .. n - 1 : j > i <=> j + 1 > i + 1
      /\ \A i \in 1 .. n - 1 : ~ (1 > i + 1)
  BY <1>1
<1>4. ASSUME NEW p \in Parts
      PROVE  p \in OpenIn(open, w) <=> p \in OpenIn(Told(open, f), v)
  <2>0. \A i \in 1 .. n : i = 1 \/ \E j \in 1 .. n - 1 : i = j + 1
    BY <1>3
  <2>1. (\A i \in 1 .. n : ~ Closes(w[i], p)) <=> (\A i \in 1 .. n - 1 : ~ Closes(v[i], p)) /\ ~ Closes(f, p)
    <3>1. ASSUME \A i \in 1 .. n : ~ Closes(w[i], p)
          PROVE  (\A i \in 1 .. n - 1 : ~ Closes(v[i], p)) /\ ~ Closes(f, p)
      BY <1>1, <1>3, <3>1
    <3>2. ASSUME \A i \in 1 .. n - 1 : ~ Closes(v[i], p), ~ Closes(f, p), NEW i \in 1 .. n
          PROVE  ~ Closes(w[i], p)
      BY <1>1, <2>0, <3>2
    <3> QED BY <3>1, <3>2
  <2>2. ASSUME NEW i \in 1 .. n - 1
        PROVE  (\A j \in 1 .. n : j > i + 1 => ~ Closes(w[j], p))
                 <=> (\A j \in 1 .. n - 1 : j > i => ~ Closes(v[j], p))
    <3>1. ASSUME \A j \in 1 .. n : j > i + 1 => ~ Closes(w[j], p), NEW j \in 1 .. n - 1, j > i
          PROVE  ~ Closes(v[j], p)
      BY <1>1, <1>3, <3>1
    <3>2. ASSUME \A j \in 1 .. n - 1 : j > i => ~ Closes(v[j], p), NEW j \in 1 .. n, j > i + 1
          PROVE  ~ Closes(w[j], p)
      <4>1. j # 1
        BY <1>3, <3>2
      <4>2. PICK l \in 1 .. n - 1 : j = l + 1
        BY <2>0, <4>1
      <4> QED BY <1>1, <1>3, <3>2, <4>2
    <3> QED BY <3>1, <3>2
  <2>3. (\A j \in 1 .. n : j > 1 => ~ Closes(w[j], p)) <=> (\A j \in 1 .. n - 1 : ~ Closes(v[j], p))
    <3>1. ASSUME \A j \in 1 .. n : j > 1 => ~ Closes(w[j], p), NEW j \in 1 .. n - 1
          PROVE  ~ Closes(v[j], p)
      BY <1>1, <1>3, <3>1
    <3>2. ASSUME \A j \in 1 .. n - 1 : ~ Closes(v[j], p), NEW j \in 1 .. n, j > 1
          PROVE  ~ Closes(w[j], p)
      <4>1. PICK l \in 1 .. n - 1 : j = l + 1
        BY <2>0, <3>2
      <4> QED BY <1>1, <3>2, <4>1
    <3> QED BY <3>1, <3>2
  <2> DEFINE Before(i) == \A j \in 1 .. n : j > i => ~ Closes(w[j], p)
             After(i) == \A j \in 1 .. n - 1 : j > i => ~ Closes(v[j], p)
  <2>4. /\ \A i \in 1 .. n - 1 : Before(i + 1) <=> After(i)
        /\ Before(1) <=> \A j \in 1 .. n - 1 : ~ Closes(v[j], p)
    BY <2>2, <2>3
  <2>5. /\ \A i \in 1 .. n - 1 : Opens(w[i + 1], p) <=> Opens(v[i], p)
        /\ Opens(w[1], p) <=> Opens(f, p)
    BY <1>1
  <2> HIDE DEF After, Before
  <2>6. (\E i \in 1 .. n : Opens(w[i], p) /\ Before(i))
          <=> \/ \E i \in 1 .. n - 1 : Opens(v[i], p) /\ After(i)
              \/ Opens(f, p) /\ \A j \in 1 .. n - 1 : ~ Closes(v[j], p)
    <3>1. ASSUME NEW i \in 1 .. n, Opens(w[i], p), Before(i)
          PROVE  \/ \E l \in 1 .. n - 1 : Opens(v[l], p) /\ After(l)
                 \/ Opens(f, p) /\ \A j \in 1 .. n - 1 : ~ Closes(v[j], p)
      BY <2>0, <2>4, <2>5, <3>1
    <3>2. ASSUME NEW i \in 1 .. n - 1, Opens(v[i], p), After(i)
          PROVE  \E l \in 1 .. n : Opens(w[l], p) /\ Before(l)
      BY <1>3, <2>4, <2>5, <3>2
    <3>3. ASSUME Opens(f, p), \A j \in 1 .. n - 1 : ~ Closes(v[j], p)
          PROVE  \E l \in 1 .. n : Opens(w[l], p) /\ Before(l)
      BY <1>1, <2>4, <2>5, <3>3
    <3> QED BY <3>1, <3>2, <3>3
  <2> USE DEF After, Before
  <2>7. p \in Told(open, f) <=> (p \in open /\ ~ Closes(f, p)) \/ Opens(f, p)
    BY <1>2 DEF Told, Opens, Closes, Kinds
  <2>8. p \in OpenIn(open, w) <=>
          \/ p \in open /\ \A i \in 1 .. n : ~ Closes(w[i], p)
          \/ \E i \in 1 .. n : Opens(w[i], p) /\ Before(i)
    BY <1>1 DEF OpenIn
  <2>9. p \in OpenIn(Told(open, f), v) <=>
          \/ p \in Told(open, f) /\ \A i \in 1 .. n - 1 : ~ Closes(v[i], p)
          \/ \E i \in 1 .. n - 1 : Opens(v[i], p) /\ After(i)
    BY <1>1 DEF OpenIn
  <2> HIDE DEF After, Before
  <2> QED BY <2>1, <2>6, <2>7, <2>8, <2>9
<1>5. OpenIn(open, w) \subseteq Parts /\ OpenIn(Told(open, f), v) \subseteq Parts
  BY DEF OpenIn
<1>6. OpenIn(open, w) = OpenIn(Told(open, f), v)
  BY <1>4, <1>5
<1> QED BY <1>6 DEF v, f

(* What subscribe() sends for a cursor leaves open exactly the parts that  *)
(* the agent has open, though it leaves out what came before the cursor.   *)
LEMMA ReplayOpens ==
  ASSUME BuffersOK, Kept, NEW c \in Chats, NEW from \in Nat, ~ disabled[c]
  PROVE  OpenIn({}, Replay(c, from)) = telling[c]
<1> DEFINE e == events[c]
           h == Len(events[c])
           r == Replay(c, from)
           S == {i \in opened[c] : i <= from}
           rest == IF h >= from THEN h - from ELSE 0
<1>1. e \in Seq(Chunks) /\ h \in Nat /\ DOMAIN e = 1 .. h /\ \A i \in 1 .. h : e[i] \in Chunks
  <2>1. events[c] \in Seq(Chunks)
    BY DEF BuffersOK
  <2> QED BY <2>1
<1>2. /\ opened[c] = {i \in 1 .. h : StillOpen(e, i)}
      /\ telling[c] = {e[i].part : i \in opened[c]}
  BY <1>1 DEF Kept, KeptIn
<1>3. PICK a \in Nat : \E open : IsReplay(r, e, opened[c], from, a, open)
  <2>1. events[c] \in Seq(Chunks) /\ opened[c] \subseteq DOMAIN events[c]
    BY <1>1, <1>2
  <2> QED BY <2>1, ReplayIs
<1>4. PICK open : IsReplay(r, e, opened[c], from, a, open)
  BY <1>3
<1> HIDE DEF r
<1>5. /\ open \in [1 .. a -> S]
      /\ r \in Seq(Frames) /\ Len(r) = a + rest
      /\ \A i \in 1 .. a : r[i].chunk = e[open[i]]
      /\ \A i \in a + 1 .. a + rest : r[i].chunk = e[from + (i - a)]
      /\ \A x \in opened[c] : x <= from => \E i \in 1 .. a : open[i] = x
  BY <1>4 DEF IsReplay
<1>6. rest \in Nat /\ \A x \in 1 .. h : x > from => a + (x - from) \in a + 1 .. a + rest
      /\ from + ((a + (x - from)) - a) = x
  <2> HIDE DEF h
  <2> QED BY <1>1
<1>7. \A i \in a + 1 .. a + rest : from + (i - a) \in 1 .. h /\ from + (i - a) > from
  <2> HIDE DEF h
  <2> QED BY <1>1
<1>8. \A i \in 1 .. a : open[i] \in opened[c] /\ open[i] \in 1 .. h /\ open[i] <= from /\ r[i].chunk = e[open[i]]
  <2>1. \A i \in 1 .. a : open[i] \in S
    BY <1>5
  <2> QED BY <1>2, <1>5, <2>1
<1>9. \A i \in a + 1 .. a + rest : r[i].chunk = e[from + (i - a)]
  BY <1>5
<1>10. \A x \in opened[c] : x <= from => \E i \in 1 .. a : open[i] = x
  BY <1>5
<1>11. DOMAIN r = 1 .. a + rest
  <2>1. r \in Seq(Frames) /\ Len(r) = a + rest
    BY <1>5
  <2> HIDE DEF rest
  <2> QED BY <1>6, <2>1
<1> HIDE DEF e, h, S, rest
<1>12. /\ \A i \in 1 .. a + rest : i \in 1 .. a \/ i \in a + 1 .. a + rest
       /\ \A i \in 1 .. a : i \in 1 .. a + rest
       /\ \A i \in a + 1 .. a + rest : i \in 1 .. a + rest
  BY <1>3, <1>6
(* A part whose start is sent, and no end after it, is open. *)
<1>13. ASSUME NEW p \in OpenIn({}, r) PROVE p \in telling[c]
  <2>1. PICK i \in 1 .. a + rest : Opens(r[i], p) /\ \A j \in 1 .. a + rest : j > i => ~ Closes(r[j], p)
    BY <1>11, <1>13 DEF OpenIn
  <2>2. CASE i \in 1 .. a
    BY <1>2, <1>8, <2>1, <2>2 DEF Opens
  <2>3. CASE i \in a + 1 .. a + rest
    <3> DEFINE q == from + (i - a)
               Marks == {x \in 1 .. h : x >= q /\ e[x].part = p /\ e[x].kind # "more"}
    <3>1. q \in 1 .. h /\ q > from /\ e[q].part = p /\ e[q].kind = "start"
      BY <1>7, <1>9, <2>1, <2>3 DEF Opens
    <3>2. q \in Marks
      BY <3>1
    <3>3. PICK x \in Marks : \A y \in Marks : y <= x
      <4>1. Marks \in SUBSET (1 .. h) /\ Marks # {}
        BY <3>2
      <4> HIDE DEF Marks
      <4> QED BY <1>1, <4>1, GreatestOf
    <3>4. x \in 1 .. h /\ x >= q /\ e[x].part = p /\ e[x].kind # "more"
      BY <3>3
    <3>5. e[x].kind # "end"
      <4> SUFFICES ASSUME e[x].kind = "end" PROVE FALSE
        OBVIOUS
      <4> DEFINE j == a + (x - from)
      <4>1. x > q
        <5>1. x # q
          BY <3>1
        <5> HIDE DEF q
        <5> QED BY <1>1, <3>1, <3>4, <5>1
      <4>2. x > from /\ j > i
        BY <1>1, <1>3, <2>3, <3>4, <4>1
      <4>3. j \in a + 1 .. a + rest /\ from + (j - a) = x
        BY <1>6, <3>4, <4>2
      <4> HIDE DEF j
      <4>4. Closes(r[j], p)
        BY <1>9, <3>4, <4>3 DEF Closes
      <4> QED BY <1>12, <2>1, <4>2, <4>3, <4>4
    <3>6. e[x].kind = "start"
      BY <1>1, <3>4, <3>5 DEF Chunks, Kinds
    <3>7. StillOpen(e, x)
      <4> SUFFICES ASSUME NEW y \in 1 .. h, y > x, e[y].part = p, e[y].kind # "more" PROVE FALSE
        BY <1>1, <3>4, <3>6 DEF StillOpen
      <4>1. y >= q
        BY <1>1, <3>1, <3>4
      <4>2. y <= x
        BY <3>3, <4>1
      <4> QED BY <1>1, <3>4, <4>2
    <3> QED BY <1>2, <3>4, <3>7
  <2> QED BY <1>12, <2>2, <2>3
(* The start of an open part is sent, again or for the first time, and no  *)
(* end after it.                                                           *)
<1>14. ASSUME NEW p \in telling[c] PROVE p \in OpenIn({}, r)
  <2>1. PICK x \in opened[c] : e[x].part = p
    BY <1>2, <1>14
  <2>2. x \in 1 .. h /\ e[x].kind = "start" /\ \A y \in 1 .. h : y > x /\ e[y].part = p => e[y].kind = "more"
    BY <1>1, <1>2, <2>1 DEF StillOpen
  <2>3. p \in Parts
    BY <1>1, <2>1, <2>2 DEF Chunks
  <2>4. \A j \in 1 .. a : ~ Closes(r[j], p)
    BY <1>1, <1>2, <1>8 DEF StillOpen, Closes
  <2>5. CASE x <= from
    <3>1. PICK i \in 1 .. a : open[i] = x
      BY <1>10, <2>5
    <3>2. Opens(r[i], p)
      BY <1>8, <2>1, <2>2, <3>1 DEF Opens
    <3>3. \A j \in a + 1 .. a + rest : ~ Closes(r[j], p)
      <4> SUFFICES ASSUME NEW j \in a + 1 .. a + rest, Closes(r[j], p) PROVE FALSE
        OBVIOUS
      <4> DEFINE y == from + (j - a)
      <4>1. y \in 1 .. h /\ y > from /\ e[y].part = p /\ e[y].kind = "end"
        BY <1>7, <1>9 DEF Closes
      <4> HIDE DEF y
      <4>2. y > x
        BY <1>1, <2>2, <2>5, <4>1
      <4> QED BY <2>2, <4>1, <4>2
    <3> QED BY <1>11, <1>12, <2>3, <2>4, <3>1, <3>2, <3>3 DEF OpenIn
  <2>6. CASE x > from
    <3> DEFINE i == a + (x - from)
    <3>1. i \in a + 1 .. a + rest /\ from + (i - a) = x
      BY <1>6, <2>2, <2>6
    <3> HIDE DEF i
    <3>2. Opens(r[i], p)
      BY <1>9, <2>1, <2>2, <3>1 DEF Opens
    <3>3. ASSUME NEW j \in a + 1 .. a + rest, j > i, Closes(r[j], p) PROVE FALSE
      <4> DEFINE y == from + (j - a)
      <4>1. y \in 1 .. h /\ e[y].part = p /\ e[y].kind = "end"
        BY <1>7, <1>9, <3>3 DEF Closes
      <4>2. y > x
        BY <1>3, <1>6, <3>1, <3>3
      <4> HIDE DEF y
      <4> QED BY <2>2, <4>1, <4>2
    <3>4. \A j \in 1 .. a + rest : j > i => ~ Closes(r[j], p)
      BY <1>12, <2>4, <3>3
    <3> QED BY <1>11, <1>12, <2>3, <3>1, <3>2, <3>4 DEF OpenIn
  <2>7. x <= from \/ x > from
    BY <1>1, <2>2
  <2> QED BY <2>5, <2>6, <2>7
<1>15. OpenIn({}, r) = telling[c]
  BY <1>13, <1>14
<1> QED BY <1>15 DEF r

-----------------------------------------------------------------------------
(* What is delivered.                                                      *)

(* The cursor counts what tab k has merged of a buffer that can still be   *)
(* replayed to it, and what it has yet to read has been sent and is kept.  *)
Counted(k) ==
  \A c \in Chats :
    /\ k \notin misled /\ phase[k] \in {"reading", "dropped"}
    /\ of[k] = stream[c] /\ stream[c] # None /\ ~ disabled[c]
    => /\ cursor[k] = Len(merged[k]) /\ cursor[k] <= sent[c]
       /\ \A i \in DOMAIN wire[k] :
            /\ wire[k][i].kept /\ wire[k][i].pos <= sent[c]
            /\ wire[k][i].again => wire[k][i].pos <= cursor[k]

Delivery(k) == Counted(k) /\ Complete(k) /\ InStep(k) /\ OneTurn(k)

Delivering == \A k \in Tabs : Delivery(k)

(* A step that neither sends to tab k nor moves it, nor renews what it     *)
(* reads.                                                                  *)
LEMMA Untouched ==
  ASSUME TabsOK, NEW k \in Tabs, Delivery(k),
         wire'[k] = wire[k], merged'[k] = merged[k], parts'[k] = parts[k], of'[k] = of[k],
         k \in misled' <=> k \in misled,
         phase'[k] \in {"reading", "dropped"} => phase'[k] = phase[k] /\ cursor'[k] = cursor[k],
         \A c \in Chats : k \in subs'[c] =>
           /\ k \in subs[c] /\ stream'[c] = stream[c] /\ sent'[c] = sent[c]
           /\ telling'[c] = telling[c],
         \A c \in Chats : of[k] = stream'[c] /\ stream'[c] # None /\ ~ disabled'[c] =>
           /\ stream'[c] = stream[c] /\ ~ disabled[c]
           /\ sent[c] \in Nat /\ sent'[c] \in Nat /\ sent[c] <= sent'[c]
  PROVE  Delivery(k)'
<1>1. Counted(k)'
  <2> SUFFICES ASSUME NEW c \in Chats,
                      k \notin misled', phase'[k] \in {"reading", "dropped"},
                      of'[k] = stream'[c], stream'[c] # None, ~ disabled'[c]
               PROVE  /\ cursor[k] = Len(merged[k]) /\ cursor[k] <= sent'[c]
                      /\ \A i \in DOMAIN wire[k] :
                           /\ wire[k][i].kept /\ wire[k][i].pos <= sent'[c]
                           /\ wire[k][i].again => wire[k][i].pos <= cursor[k]
    BY DEF Counted
  <2>1. /\ cursor[k] = Len(merged[k]) /\ cursor[k] <= sent[c]
        /\ \A i \in DOMAIN wire[k] :
             /\ wire[k][i].kept /\ wire[k][i].pos <= sent[c]
             /\ wire[k][i].again => wire[k][i].pos <= cursor[k]
    BY DEF Delivery, Counted
  <2>2. sent[c] \in Nat /\ sent'[c] \in Nat /\ sent[c] <= sent'[c]
    OBVIOUS
  <2>3. cursor[k] \in Nat
    BY DEF TabsOK
  <2>4. \A i \in DOMAIN wire[k] : wire[k][i].pos \in Nat
    <3>1. wire[k] \in Seq(Frames)
      BY DEF TabsOK
    <3>2. \A i \in DOMAIN wire[k] : wire[k][i] \in Frames
      BY <3>1
    <3> QED BY <3>2 DEF Frames
  <2> QED BY <2>1, <2>2, <2>3, <2>4
<1>2. Complete(k)'
  <2> SUFFICES ASSUME k \notin misled
               PROVE  /\ \A i \in DOMAIN merged[k] : merged[k][i] = i
                      /\ \E a \in 0 .. Len(wire[k]) : Continues(k, a)'
    BY DEF Complete
  <2>1. /\ \A i \in DOMAIN merged[k] : merged[k][i] = i
        /\ \E a \in 0 .. Len(wire[k]) : Continues(k, a)
    BY DEF Delivery, Complete
  <2>2. ASSUME NEW a, Continues(k, a) PROVE Continues(k, a)'
    BY <2>2 DEF Continues
  <2> QED BY <2>1, <2>2
<1>3. InStep(k)'
  BY DEF Delivery, InStep, OpenAfter
<1>4. OneTurn(k)'
  BY DEF Delivery, OneTurn
<1> QED BY <1>1, <1>2, <1>3, <1>4 DEF Delivery

(* A tab that loses its connection, or gives up what it was reading.       *)
LEMMA Detached ==
  ASSUME NEW k \in Tabs, Delivery(k), wire'[k] = <<>>, \A c \in Chats : k \notin subs'[c],
         \/ merged'[k] = <<>>
         \/ merged'[k] = merged[k] /\ (k \in misled => k \in misled'),
         phase'[k] # "reading",
         phase'[k] = "dropped" =>
           /\ phase[k] = "reading" /\ merged'[k] = merged[k] /\ cursor'[k] = cursor[k]
           /\ of'[k] = of[k] /\ (k \in misled => k \in misled')
           /\ UNCHANGED <<stream, disabled, sent>>
  PROVE  Delivery(k)'
<1>0. Len(<<>>) = 0 /\ DOMAIN <<>> = {}
  OBVIOUS
<1>1. Counted(k)'
  BY <1>0 DEF Delivery, Counted
<1>2. Complete(k)'
  <2>1. 0 \in 0 .. Len(wire'[k])
    BY <1>0
  <2>2. Continues(k, 0)'
    BY <1>0 DEF Continues
  <2>3. k \in misled' \/ \A i \in DOMAIN merged'[k] : merged'[k][i] = i
    BY <1>0 DEF Delivery, Complete
  <2> QED BY <2>1, <2>2, <2>3 DEF Complete
<1>3. InStep(k)'
  BY DEF InStep
<1>4. OneTurn(k)'
  BY <1>0 DEF OneTurn
<1> QED BY <1>1, <1>2, <1>3, <1>4 DEF Delivery

(* Steps that neither send anything nor install a buffer. *)
LEMMA RestDelivers ==
  ASSUME StreamInv, Delivering,
         UNCHANGED <<wire, merged, parts, of, misled, stream, disabled, sent, telling>>,
         \A c \in Chats : subs'[c] \subseteq subs[c],
         \A k \in Tabs : phase'[k] \in {"reading", "dropped"} =>
                           phase'[k] = phase[k] /\ cursor'[k] = cursor[k]
  PROVE  Delivering'
<1> SUFFICES ASSUME NEW k \in Tabs PROVE Delivery(k)'
  BY DEF Delivering
<1>1. TabsOK /\ Delivery(k)
  BY DEF StreamInv, Delivering
<1>2. \A c \in Chats : sent[c] \in Nat /\ sent[c] <= sent[c]
  BY DEF StreamInv, BuffersOK
<1>3. \A c \in Chats : of[k] = stream'[c] /\ stream'[c] # None /\ ~ disabled'[c] =>
           /\ stream'[c] = stream[c] /\ ~ disabled[c]
           /\ sent[c] \in Nat /\ sent'[c] \in Nat /\ sent[c] <= sent'[c]
  BY <1>2
<1> QED BY <1>1, <1>3, Untouched

(* A POST resets the cursor of a tab that then only waits. *)
LEMMA PostDelivers ==
  ASSUME StreamInv, Delivering, NEW t \in Turns, NEW k \in Tabs \cup {None}, Post(t, k)
  PROVE  Delivering'
<1>1. UNCHANGED <<wire, merged, parts, of, misled, stream, disabled, sent, telling, subs>>
  BY DEF Post, buffers, content
<1>2. \A j \in Tabs : phase'[j] \in {"reading", "dropped"} =>
                        phase'[j] = phase[j] /\ cursor'[j] = cursor[j]
  BY DEF Post, Tell
<1> QED BY <1>1, <1>2, RestDelivers

(* The tab of a POST that fails was not reading. *)
LEMMA PostFailsDelivers ==
  ASSUME StreamInv, Delivering, NEW t \in Turns, PostFails(t)
  PROVE  Delivering'
<1>1. UNCHANGED <<wire, merged, parts, of, misled, stream, disabled, sent, telling, subs, cursor>>
  BY DEF PostFails, buffers, content
<1>2. \A j \in Tabs : phase'[j] \in {"reading", "dropped"} => phase'[j] = phase[j]
  BY DEF PostFails, Tell
<1> QED BY <1>1, <1>2, RestDelivers

(* The end of a turn, and a stream that is stopped. *)
LEMMA FinishDelivers ==
  ASSUME StreamInv, Delivering,
         \/ \E t \in Turns : HandlerEnds(t) \/ CloseTimer(t) \/ TaskEnds(t)
         \/ \E c \in Chats : Cancel(c) \/ StopShowing(c)
  PROVE  Delivering'
<1>1. UNCHANGED <<wire, stream, disabled, sent, telling, tabs>>
  BY DEF HandlerEnds, CloseTimer, TaskEnds, Cancel, StopShowing, buffers, content
<1>2. \A c \in Chats : subs'[c] \subseteq subs[c]
  BY DEF HandlerEnds, CloseTimer, TaskEnds, Cancel, StopShowing, FinishIfCurrent, Finish, Close
<1> QED BY <1>1, <1>2, RestDelivers DEF tabs

(* A buffer that is dropped: nobody reads it any more. *)
LEMMA CleanupDelivers ==
  ASSUME StreamInv, Delivering, NEW c \in Chats, Cleanup(c)
  PROVE  Delivering'
<1> SUFFICES ASSUME NEW k \in Tabs PROVE Delivery(k)'
  BY DEF Delivering
<1>1. TabsOK /\ Delivery(k)
  BY DEF StreamInv, Delivering
<1>2. UNCHANGED <<wire, tabs>>
  BY DEF Cleanup
<1>3. /\ stream'[c] = None /\ subs'[c] = {}
      /\ \A d \in Chats : d # c =>
           /\ stream'[d] = stream[d] /\ disabled'[d] = disabled[d] /\ sent'[d] = sent[d]
           /\ telling'[d] = telling[d] /\ subs'[d] = subs[d]
  BY DEF Cleanup, Install, Close, StreamInv, BuffersOK
<1>4. \A d \in Chats : k \in subs'[d] =>
        /\ k \in subs[d] /\ stream'[d] = stream[d] /\ sent'[d] = sent[d]
        /\ telling'[d] = telling[d]
  BY <1>3
<1>5. \A d \in Chats : sent[d] \in Nat /\ sent[d] <= sent[d]
  BY DEF StreamInv, BuffersOK
<1>6. \A d \in Chats : of[k] = stream'[d] /\ stream'[d] # None /\ ~ disabled'[d] =>
           /\ stream'[d] = stream[d] /\ ~ disabled[d]
           /\ sent[d] \in Nat /\ sent'[d] \in Nat /\ sent[d] <= sent'[d]
  BY <1>3, <1>5
<1> QED BY <1>1, <1>2, <1>4, <1>6, Untouched DEF tabs

(* Nobody reads once the daemon is down. *)
LEMMA DownDelivers ==
  ASSUME StreamInv, Delivering, Down
  PROVE  Delivering'
<1> SUFFICES ASSUME NEW k \in Tabs PROVE Delivery(k)'
  BY DEF Delivering
<1>1. TabsOK /\ Delivery(k)
  BY DEF StreamInv, Delivering
<1>2. UNCHANGED <<wire, tabs>> /\ \A d \in Chats : stream'[d] = None /\ subs'[d] = {}
  BY DEF Down, Close
<1> QED BY <1>1, <1>2, Untouched DEF tabs

(* A new buffer: the tab that asked for it starts with nothing, the others *)
(* know nothing of its turn, and no longer read the one it replaces.       *)
LEMMA CreateDelivers ==
  ASSUME StreamInv, StreamInv', Linked, Delivering, NEW t \in Turns, Create(t)
  PROVE  Delivering'
<1> SUFFICES ASSUME NEW k \in Tabs PROVE Delivery(k)'
  BY DEF Delivering
<1> DEFINE c == ChatOf[t]
<1>0. c \in Chats /\ t # None /\ state[t] = "posted" /\ t \notin Begun
  BY DEF Create, Begun
<1>1. TabsOK /\ Delivery(k) /\ TabsOK'
  BY DEF StreamInv, Delivering
<1>2. /\ \A d \in Chats : subs'[d] = IF d = c THEN {poster[t]} \cap Tabs ELSE subs[d]
      /\ stream'[c] = t /\ sent'[c] = 0 /\ telling'[c] = {}
      /\ \A d \in Chats : d # c =>
           /\ stream'[d] = stream[d] /\ disabled'[d] = disabled[d] /\ sent'[d] = sent[d]
           /\ telling'[d] = telling[d]
      /\ UNCHANGED <<wire, cursor>>
  <2>1. \A d \in Chats : subs'[d] = IF d = c THEN {poster[t]} \cap Tabs ELSE subs[d]
    BY DEF Create, StreamInv, TabsOK
  <2>2. Install(c, t) /\ UNCHANGED <<wire, cursor>>
    BY DEF Create
  <2>3. /\ stream'[c] = t /\ sent'[c] = 0 /\ telling'[c] = {}
        /\ \A d \in Chats : d # c =>
             /\ stream'[d] = stream[d] /\ disabled'[d] = disabled[d] /\ sent'[d] = sent[d]
             /\ telling'[d] = telling[d]
    BY <1>0, <2>2 DEF Install, StreamInv, BuffersOK
  <2> QED BY <2>1, <2>2, <2>3
<1>3. \A d \in Chats : sent[d] \in Nat /\ sent'[d] \in Nat /\ sent[d] <= sent[d]
  BY DEF StreamInv, BuffersOK
<1> HIDE DEF c
<1>4. CASE k = poster[t]
  <2>1. phase[k] = "sent" /\ wire[k] = <<>> /\ cursor[k] = 0 /\ \A d \in Chats : k \notin subs[d]
    BY <1>0, <1>4 DEF Linked, Senders, Quiet, Following
  <2>2. of'[k] = t /\ parts'[k] = {} /\ merged'[k] = <<>> /\ k \notin misled'
    BY <1>4 DEF Create, Reads, StreamInv, TabsOK
  <2>3. wire'[k] = <<>> /\ cursor'[k] = 0 /\ \A d \in Chats : k \in subs'[d] => d = c
    BY <1>2, <2>1
  <2>4. Len(<<>>) = 0 /\ DOMAIN <<>> = {} /\ 0 \in 0 .. 0 /\ 0 + (0 - 0) = 0
    OBVIOUS
  <2>5. Counted(k)'
    BY <1>3, <2>2, <2>3, <2>4 DEF Counted
  <2>6. Complete(k)'
    <3>1. Continues(k, 0)'
      BY <1>2, <2>2, <2>3, <2>4 DEF Continues
    <3> QED BY <2>2, <2>3, <2>4, <3>1 DEF Complete
  <2>7. InStep(k)'
    <3>1. OpenIn(parts'[k], wire'[k]) = {}
      BY <2>2, <2>3, <2>4 DEF OpenIn
    <3> QED BY <1>1, <1>2, <2>3, <3>1, InStepThen
  <2>8. OneTurn(k)'
    BY <2>3, <2>4 DEF OneTurn
  <2> QED BY <2>5, <2>6, <2>7, <2>8 DEF Delivery
<1>5. CASE k # poster[t]
  <2>1. /\ of'[k] = of[k] /\ parts'[k] = parts[k] /\ merged'[k] = merged[k] /\ phase'[k] = phase[k]
        /\ k \in misled' <=> k \in misled
    <3>1. CASE poster[t] \in Tabs
      <4>1. /\ Reads(poster[t], t) /\ misled' = misled \ {poster[t]}
            /\ merged' = [merged EXCEPT ![poster[t]] = <<>>]
        BY <3>1 DEF Create
      <4> QED BY <1>5, <4>1 DEF Reads, StreamInv, TabsOK
    <3>2. CASE poster[t] \notin Tabs
      BY <3>2 DEF Create
    <3> QED BY <3>1, <3>2
  <2>2. of[k] # t
    BY <1>0 DEF Linked, Known
  <2>3. \A d \in Chats : k \in subs'[d] =>
          /\ k \in subs[d] /\ stream'[d] = stream[d] /\ sent'[d] = sent[d]
          /\ telling'[d] = telling[d]
    BY <1>2, <1>5
  <2>4. \A d \in Chats : of[k] = stream'[d] /\ stream'[d] # None /\ ~ disabled'[d] =>
           /\ stream'[d] = stream[d] /\ ~ disabled[d]
           /\ sent[d] \in Nat /\ sent'[d] \in Nat /\ sent[d] <= sent'[d]
    BY <1>2, <1>3, <2>2
  <2> QED BY <1>1, <1>2, <2>1, <2>3, <2>4, Untouched
<1> QED BY <1>4, <1>5

(* A step of tab k leaves the others alone. *)
LEMMA OthersDeliver ==
  ASSUME StreamInv, Delivering, NEW k \in Tabs, TabStep(k), NEW j \in Tabs, j # k
  PROVE  Delivery(j)'
<1>1. TabsOK /\ Delivery(j)
  BY DEF StreamInv, Delivering
<1>2. UNCHANGED <<stream, disabled, sent, telling>>
  BY DEF TabStep, Read, ReadDone, Drop, Resume, ResumeRefused, Leave, buffers, content
<1>3. /\ wire'[j] = wire[j] /\ merged'[j] = merged[j] /\ parts'[j] = parts[j] /\ of'[j] = of[j]
      /\ phase'[j] = phase[j] /\ cursor'[j] = cursor[j]
      /\ j \in misled' <=> j \in misled
      /\ \A c \in Chats : j \in subs'[c] => j \in subs[c]
  <2>1. CASE Read(k)
    BY <2>1 DEF Read, StreamInv, TabsOK
  <2>2. CASE ReadDone(k) \/ ResumeRefused(k)
    BY <2>2 DEF ReadDone, ResumeRefused, Tell, Forget, StreamInv, TabsOK
  <2>3. CASE Drop(k)
    BY <2>3 DEF Drop, Disconnect, Tell, Forget, StreamInv, TabsOK
  <2>4. CASE Resume(k)
    BY <2>4 DEF Resume, Reads, StreamInv, TabsOK
  <2>5. ASSUME NEW c \in Chats, NEW reload \in BOOLEAN, Leave(k, c, reload)
        PROVE  /\ wire'[j] = wire[j] /\ merged'[j] = merged[j] /\ parts'[j] = parts[j] /\ of'[j] = of[j]
               /\ phase'[j] = phase[j] /\ cursor'[j] = cursor[j]
               /\ j \in misled' <=> j \in misled
               /\ \A d \in Chats : j \in subs'[d] => j \in subs[d]
    BY <2>5 DEF Leave, Disconnect, Tell, Forget, StreamInv, TabsOK
  <2> QED BY <2>1, <2>2, <2>3, <2>4, <2>5 DEF TabStep
<1>4. \A c \in Chats : sent[c] \in Nat /\ sent[c] <= sent[c]
  BY DEF StreamInv, BuffersOK
<1>5. \A c \in Chats : of[j] = stream'[c] /\ stream'[c] # None /\ ~ disabled'[c] =>
           /\ stream'[c] = stream[c] /\ ~ disabled[c]
           /\ sent[c] \in Nat /\ sent'[c] \in Nat /\ sent[c] <= sent'[c]
  BY <1>2, <1>4
<1>6. \A c \in Chats : j \in subs'[c] =>
        /\ j \in subs[c] /\ stream'[c] = stream[c] /\ sent'[c] = sent[c]
        /\ telling'[c] = telling[c]
  BY <1>2, <1>3
<1> QED BY <1>1, <1>3, <1>5, <1>6, Untouched

(* A tab that reads to the end, loses its connection, leaves, or is told   *)
(* that there is nothing to resume.                                        *)
LEMMA AwayDelivers ==
  ASSUME StreamInv, Linked, Delivering, NEW k \in Tabs,
         \/ ReadDone(k) \/ Drop(k) \/ ResumeRefused(k)
         \/ \E c \in Chats, reload \in BOOLEAN : Leave(k, c, reload)
  PROVE  Delivering'
<1>1. ASSUME NEW j \in Tabs, j # k PROVE Delivery(j)'
  BY <1>1, OthersDeliver DEF TabStep
<1>2. Delivery(k)'
  <2>1. Delivery(k)
    BY DEF Delivering
  <2>2. CASE ReadDone(k) \/ ResumeRefused(k)
    <3>1. wire'[k] = <<>> /\ \A c \in Chats : k \notin subs'[c]
      BY <2>2 DEF ReadDone, ResumeRefused, Linked, Quiet, Following
    <3>2. merged'[k] = <<>> /\ phase'[k] \in {"ready", "lost"}
      BY <2>2 DEF ReadDone, ResumeRefused, Forget, Tell, StreamInv, TabsOK
    <3> QED BY <2>1, <3>1, <3>2, Detached
  <2>3. CASE Drop(k)
    <3>1. wire'[k] = <<>> /\ \A c \in Chats : k \notin subs'[c]
      BY <2>3 DEF Drop, Disconnect, StreamInv, TabsOK
    <3>2. phase[k] = "reading" /\ UNCHANGED <<stream, disabled, sent, cursor>>
      BY <2>3 DEF Drop, buffers, content
    <3>3. \/ phase'[k] = "dropped" /\ UNCHANGED <<of, merged, misled>>
          \/ phase'[k] = "ready" /\ merged'[k] = <<>>
      BY <2>3 DEF Drop, Tell, Forget, StreamInv, TabsOK
    <3> QED BY <2>1, <3>1, <3>2, <3>3, Detached
  <2>4. ASSUME NEW c \in Chats, NEW reload \in BOOLEAN, Leave(k, c, reload) PROVE Delivery(k)'
    <3>1. wire'[k] = <<>> /\ \A d \in Chats : k \notin subs'[d]
      BY <2>4 DEF Leave, Disconnect, StreamInv, TabsOK
    <3>2. merged'[k] = <<>> /\ phase'[k] = "opening"
      BY <2>4 DEF Leave, Forget, Tell, StreamInv, TabsOK
    <3> QED BY <2>1, <3>1, <3>2, Detached
  <2> QED BY <2>2, <2>3, <2>4
<1> QED BY <1>1, <1>2 DEF Delivering

(* A chunk: every subscriber gets it as the one after the last, and what   *)
(* it will have open follows what the agent has open.                      *)
LEMMA EmitDelivers ==
  ASSUME StreamInv, StreamInv', Linked, Delivering, NEW t \in Turns, NEW kind \in Kinds,
         NEW part \in Parts, Emit(t, kind, part)
  PROVE  Delivering'
<1> DEFINE c == ChatOf[t]
<1>0. c \in Chats /\ t # None /\ UNCHANGED <<stream, subs, tabs>>
  BY DEF Emit
<1>1. CASE ~ Accepts(c, t)
  <2>1. UNCHANGED <<wire, stream, disabled, sent, telling, subs, tabs>>
    BY <1>0, <1>1 DEF Emit, content
  <2> QED BY <2>1, RestDelivers DEF tabs
<1>2. CASE Accepts(c, t)
  <2> SUFFICES ASSUME NEW k \in Tabs PROVE Delivery(k)'
    BY DEF Delivering
  <2>1. stream[c] = t
    BY <1>2 DEF Accepts
  <2> DEFINE chunk == [by |-> t, kind |-> kind, part |-> part]
             keeps == ~disabled[c] /\ Len(events[c]) < MaxEvents /\ total < Ceiling
             f == [chunk |-> chunk, pos |-> sent[c] + 1, kept |-> keeps, again |-> FALSE]
             w == wire[k]
             n == Len(wire[k])
  <2>2. TabsOK /\ TabsOK' /\ Delivery(k)
    BY DEF StreamInv, Delivering
  <2>3. \A d \in Chats : sent[d] \in Nat
    BY DEF StreamInv, BuffersOK
  <2>4. /\ sent'[c] = sent[c] + 1
        /\ telling'[c] = IF kind = "start" THEN telling[c] \cup {part}
                         ELSE IF kind = "end" THEN telling[c] \ {part} ELSE telling[c]
        /\ disabled'[c] = ~keeps
        /\ \A d \in Chats : d # c =>
             sent'[d] = sent[d] /\ telling'[d] = telling[d] /\ disabled'[d] = disabled[d]
        /\ wire'[k] = IF k \in subs[c] THEN Append(w, f) ELSE w
    <3>1. Accept(c, t, kind, part)
      BY <1>2 DEF Emit
    <3>2. keeps \in BOOLEAN
      BY <1>0 DEF StreamInv, BuffersOK
    <3> QED BY <1>0, <3>1, <3>2 DEF Accept, StreamInv, BuffersOK
  <2>5. keeps \in BOOLEAN /\ f \in Frames
    <3>1. chunk \in Chunks
      BY DEF Chunks
    <3>2. keeps \in BOOLEAN
      BY DEF StreamInv, BuffersOK
    <3>3. sent[c] + 1 \in Nat
      BY <1>0, <2>3
    <3> HIDE DEF chunk, keeps
    <3> QED BY <3>1, <3>2, <3>3 DEF Frames
  <2>6. ~ disabled'[c] => keeps /\ ~ disabled[c]
    BY <2>4, <2>5
  <2>7. f.pos = sent[c] + 1 /\ f.kept = keeps /\ f.again = FALSE /\ f.chunk = chunk
    OBVIOUS
  <2>8. Told(telling[c], f) = telling'[c]
    BY <2>4 DEF Told
  <2>9. f.chunk.by = t
    BY <2>7
  <2> HIDE DEF c, f, keeps, chunk
  <2>10. CASE k \notin subs[c]
    <3>1. \A d \in Chats : k \in subs'[d] =>
            /\ k \in subs[d] /\ stream'[d] = stream[d] /\ sent'[d] = sent[d]
            /\ telling'[d] = telling[d]
      BY <1>0, <2>1, <2>4, <2>10
    <3>2. \A d \in Chats : sent'[d] \in Nat /\ sent[d] <= sent'[d]
      BY <2>3, <2>4
    <3>3. \A d \in Chats : of[k] = stream'[d] /\ stream'[d] # None /\ ~ disabled'[d] =>
           /\ stream'[d] = stream[d] /\ ~ disabled[d]
           /\ sent[d] \in Nat /\ sent'[d] \in Nat /\ sent[d] <= sent'[d]
      BY <1>0, <2>1, <2>3, <2>4, <2>6, <3>2
    <3>4. wire'[k] = wire[k]
      BY <2>4, <2>10
    <3> QED BY <1>0, <2>1, <2>2, <3>1, <3>3, <3>4, Untouched DEF tabs
  <2>11. CASE k \in subs[c]
    <3>1. wire'[k] = Append(w, f) /\ of[k] = t /\ phase[k] = "reading"
      BY <1>0, <2>1, <2>4, <2>11 DEF Linked, Following
    <3>2. \A d \in Chats : k \in subs[d] => d = c
      BY <1>0, <2>1, <2>11, OneBuffer
    <3>3. \A d \in Chats : stream[d] = t => d = c
      BY <1>0 DEF Linked, Owned, c
    <3>4. w \in Seq(Frames) /\ cursor[k] \in Nat /\ merged[k] \in Seq(Nat)
      BY <2>2 DEF TabsOK
    <3>5. /\ n \in Nat /\ DOMAIN w = 1 .. n /\ Len(wire'[k]) = n + 1
          /\ DOMAIN wire'[k] = 1 .. n + 1
          /\ \A i \in 1 .. n : wire'[k][i] = w[i]
          /\ wire'[k][n + 1] = f
      BY <2>5, <3>1, <3>4
    <3>6. \A i \in 1 .. n : w[i] \in Frames /\ w[i].pos \in Nat /\ w[i].again \in BOOLEAN
      <4>1. \A i \in 1 .. n : w[i] \in Frames
        BY <3>4
      <4> HIDE DEF w, n
      <4> QED BY <4>1 DEF Frames
    <3>7. UNCHANGED <<cursor, merged, parts, of, misled, phase>>
      BY <1>0 DEF tabs
    <3> HIDE DEF w, n
    <3>8. \A i \in 1 .. n + 1 : i = n + 1 \/ i \in 1 .. n
      BY <3>5
    <3>9. Counted(k)'
      <4> SUFFICES ASSUME k \notin misled, ~ disabled'[c]
                   PROVE  /\ cursor[k] = Len(merged[k]) /\ cursor[k] <= sent'[c]
                          /\ \A i \in 1 .. n + 1 :
                               /\ wire'[k][i].kept /\ wire'[k][i].pos <= sent'[c]
                               /\ wire'[k][i].again => wire'[k][i].pos <= cursor[k]
        BY <1>0, <2>1, <3>1, <3>3, <3>5, <3>7 DEF Counted
      <4>1. /\ cursor[k] = Len(merged[k]) /\ cursor[k] <= sent[c]
            /\ \A i \in 1 .. n :
                 /\ w[i].kept /\ w[i].pos <= sent[c]
                 /\ w[i].again => w[i].pos <= cursor[k]
        BY <1>0, <2>1, <2>2, <2>6, <3>1, <3>5 DEF Delivery, Counted, w
      <4>2. cursor[k] <= sent'[c] /\ \A i \in 1 .. n : w[i].pos <= sent'[c]
        BY <1>0, <2>1, <2>3, <2>4, <3>4, <3>6, <4>1
      <4>3. f.kept /\ f.pos <= sent'[c] /\ ~ f.again
        BY <1>0, <2>1, <2>3, <2>4, <2>6, <2>7
      <4> QED BY <3>5, <3>8, <4>1, <4>2, <4>3
    <3>10. Complete(k)'
      <4> SUFFICES ASSUME k \notin misled
                   PROVE  /\ \A i \in DOMAIN merged[k] : merged[k][i] = i
                          /\ \E a \in 0 .. n + 1 : Continues(k, a)'
        BY <3>5, <3>7 DEF Complete
      <4>1. \A i \in DOMAIN merged[k] : merged[k][i] = i
        BY <2>2 DEF Delivery, Complete
      <4>2. PICK a \in 0 .. n : Continues(k, a)
        BY <2>2 DEF Delivery, Complete, n, w
      <4>3. /\ \A i \in 1 .. n : w[i].again <=> i <= a
            /\ \A i \in 1 .. n : i > a => w[i].pos = Len(merged[k]) + (i - a)
            /\ Len(merged[k]) + (n - a) = sent[c]
        BY <1>0, <2>1, <2>11, <3>5, <4>2 DEF Continues, n, w
      <4>4. Len(merged[k]) \in Nat /\ a \in Nat /\ a \in 0 .. n + 1 /\ n + 1 > a /\ ~ (n + 1 <= a)
        BY <3>4, <3>5
      <4>5. f.pos = Len(merged[k]) + ((n + 1) - a) /\ sent'[c] = Len(merged[k]) + ((n + 1) - a)
        <5> DEFINE m == Len(merged[k])
                   x == sent[c]
        <5>1. x \in Nat /\ m \in Nat /\ a \in Nat /\ n \in Nat /\ m + (n - a) = x
          BY <1>0, <2>1, <2>3, <3>5, <4>3, <4>4
        <5> HIDE DEF m, x
        <5>2. x + 1 = m + ((n + 1) - a)
          BY <5>1
        <5> QED BY <2>4, <2>7, <5>2 DEF m, x
      <4>6. \A i \in 1 .. n + 1 : wire'[k][i].again <=> i <= a
        BY <2>7, <3>5, <3>8, <4>3, <4>4
      <4>7. \A i \in 1 .. n + 1 : i > a => wire'[k][i].pos = Len(merged[k]) + (i - a)
        BY <3>5, <3>8, <4>3, <4>5
      <4>8. \A d \in Chats : k \in subs'[d] =>
              of'[k] = stream'[d] /\ Len(merged[k]) + (Len(wire'[k]) - a) = sent'[d]
        BY <1>0, <2>1, <3>1, <3>2, <3>5, <3>7, <4>5
      <4>9. Continues(k, a)'
        BY <3>5, <3>7, <4>6, <4>7, <4>8 DEF Continues
      <4> QED BY <4>1, <4>4, <4>9
    <3>11. InStep(k)'
      <4>1. OpenIn(parts[k], w) = telling[c]
        BY <1>0, <2>1, <2>2, <2>11, InStepNow DEF Delivery, w
      <4>2. OpenIn(parts[k], wire'[k]) = telling'[c]
        BY <2>5, <2>8, <3>1, <3>4, <4>1, OpenAppend
      <4> QED BY <1>0, <2>1, <2>2, <3>2, <3>7, <4>2, InStepThen
    <3>12. OneTurn(k)'
      <4>1. \A i \in 1 .. n : w[i].chunk.by = t
        BY <2>2, <3>1, <3>5 DEF Delivery, OneTurn, w
      <4> QED BY <2>9, <3>1, <3>5, <3>7, <3>8, <4>1 DEF OneTurn
    <3> QED BY <3>9, <3>10, <3>11, <3>12 DEF Delivery
  <2> QED BY <2>10, <2>11
<1> QED BY <1>1, <1>2

(* A frame is read: one that is sent again leaves message and cursor as    *)
(* they are, any other is the next of both.                                *)
LEMMA ReadDelivers ==
  ASSUME StreamInv, StreamInv', Linked, Delivering, NEW k \in Tabs, Read(k)
  PROVE  Delivering'
<1>1. ASSUME NEW j \in Tabs, j # k PROVE Delivery(j)'
  BY <1>1, OthersDeliver DEF TabStep
<1> DEFINE w == wire[k]
           n == Len(wire[k])
           f == Head(wire[k])
           m == Len(merged[k])
<1>2. TabsOK /\ TabsOK' /\ Delivery(k)
  BY DEF StreamInv, Delivering
<1>3. w \in Seq(Frames) /\ w # <<>> /\ cursor[k] \in Nat /\ merged[k] \in Seq(Nat)
  BY <1>2 DEF Read, TabsOK
<1>4. /\ n \in Nat /\ n >= 1 /\ DOMAIN w = 1 .. n /\ f = w[1] /\ f \in Frames
      /\ Len(Tail(w)) = n - 1 /\ DOMAIN Tail(w) = 1 .. n - 1
      /\ \A i \in 1 .. n - 1 : Tail(w)[i] = w[i + 1]
  BY <1>3
<1>5. /\ wire'[k] = Tail(w)
      /\ parts'[k] = Told(parts[k], f)
      /\ merged'[k] = IF f.again \/ k \in misled THEN merged[k] ELSE Append(merged[k], f.pos)
      /\ cursor'[k] = IF f.kept /\ f.pos > cursor[k] THEN f.pos ELSE cursor[k]
  BY <1>2 DEF Read, TabsOK, Told
<1>6. UNCHANGED <<stream, disabled, sent, telling, subs, phase, of, misled>>
  BY DEF Read, buffers, content
<1>7. f.pos \in Nat /\ f.again \in BOOLEAN /\ m \in Nat
  BY <1>3, <1>4 DEF Frames
<1>8. \A i \in 1 .. n : w[i].pos \in Nat
  <2>1. \A i \in 1 .. n : w[i] \in Frames
    BY <1>3
  <2> HIDE DEF w, n
  <2> QED BY <2>1 DEF Frames
<1> HIDE DEF w, n, f
<1>9. 1 \in 1 .. n /\ \A i \in 1 .. n - 1 : i + 1 \in 1 .. n
  BY <1>4
(* What the message holds, and what the wire continues with. *)
<1>10. ASSUME k \notin misled
       PROVE  /\ \A i \in DOMAIN merged'[k] : merged'[k][i] = i
              /\ f.again => Len(merged'[k]) = m
              /\ ~ f.again => Len(merged'[k]) = m + 1 /\ f.pos = m + 1
              /\ \E a \in 0 .. n - 1 : Continues(k, a)'
  <2>1. /\ \A i \in DOMAIN merged[k] : merged[k][i] = i
        /\ \E a \in 0 .. n : Continues(k, a)
    BY <1>2, <1>10 DEF Delivery, Complete, n
  <2>2. PICK a \in 0 .. n : Continues(k, a)
    BY <2>1
  <2>3. /\ \A i \in 1 .. n : w[i].again <=> i <= a
        /\ \A i \in 1 .. n : i > a => w[i].pos = m + (i - a)
        /\ \A c \in Chats : k \in subs[c] => of[k] = stream[c] /\ m + (n - a) = sent[c]
    BY <1>4, <2>2 DEF Continues, w, n
  <2>4. a \in Nat /\ f.again <=> a >= 1
    BY <1>4, <1>9, <2>3
  <2>5. PICK b \in 0 .. n - 1, l \in Nat :
          (f.again => a = b + 1 /\ l = m) /\ (~ f.again => a = 0 /\ b = 0 /\ l = m + 1)
    <3>1. CASE f.again
      <4>1. a - 1 \in 0 .. n - 1 /\ a = (a - 1) + 1
        BY <1>4, <2>4, <3>1
      <4> QED BY <1>7, <3>1, <4>1
    <3>2. CASE ~ f.again
      <4>1. a = 0 /\ 0 \in 0 .. n - 1 /\ m + 1 \in Nat
        BY <1>4, <1>7, <2>4, <3>2
      <4> QED BY <3>2, <4>1
    <3> QED BY <3>1, <3>2
  <2>6. ~ f.again => f.pos = m + 1
    <3>1. ASSUME ~ f.again PROVE f.pos = m + (1 - a) /\ a = 0
      BY <1>4, <1>9, <2>3, <2>4, <3>1
    <3> QED BY <1>7, <3>1
  <2>7. /\ Len(merged'[k]) = l
        /\ \A i \in DOMAIN merged'[k] : merged'[k][i] = i
    <3>1. CASE f.again
      BY <1>5, <1>10, <2>1, <2>5, <3>1
    <3>2. CASE ~ f.again
      <4>1. merged'[k] = Append(merged[k], m + 1)
        BY <1>5, <1>10, <2>6, <3>2
      <4>2. /\ DOMAIN merged'[k] = 1 .. m + 1 /\ Len(merged'[k]) = m + 1
            /\ \A i \in 1 .. m : merged'[k][i] = merged[k][i]
            /\ merged'[k][m + 1] = m + 1 /\ DOMAIN merged[k] = 1 .. m
        BY <1>3, <1>7, <4>1
      <4> HIDE DEF m
      <4>3. \A i \in 1 .. m + 1 : i = m + 1 \/ i \in 1 .. m
        BY <1>7
      <4> QED BY <2>1, <2>5, <3>2, <4>2, <4>3
    <3> QED BY <3>1, <3>2
  <2> HIDE DEF m
  <2>8. \A i \in 1 .. n - 1 : wire'[k][i].again <=> i <= b
    <3> SUFFICES ASSUME NEW i \in 1 .. n - 1 PROVE wire'[k][i].again <=> i <= b
      OBVIOUS
    <3>1. wire'[k][i] = w[i + 1] /\ (w[i + 1].again <=> i + 1 <= a)
      BY <1>4, <1>5, <1>9, <2>3
    <3>2. i + 1 <= a <=> i <= b
      BY <1>4, <1>7, <2>4, <2>5
    <3> QED BY <3>1, <3>2
  <2>9. \A i \in 1 .. n - 1 : i > b => wire'[k][i].pos = l + (i - b)
    <3> SUFFICES ASSUME NEW i \in 1 .. n - 1, i > b PROVE wire'[k][i].pos = l + (i - b)
      OBVIOUS
    <3>1. wire'[k][i] = w[i + 1] /\ i + 1 > a
      BY <1>4, <1>5, <1>7, <2>4, <2>5
    <3>2. w[i + 1].pos = m + ((i + 1) - a)
      BY <1>9, <2>3, <3>1
    <3>3. m + ((i + 1) - a) = l + (i - b)
      BY <1>4, <1>7, <2>4, <2>5
    <3> QED BY <3>1, <3>2, <3>3
  <2>10. m + (n - a) = l + ((n - 1) - b)
    BY <1>4, <1>7, <2>4, <2>5
  <2>11. Continues(k, b)'
    <3>1. \A c \in Chats : k \in subs'[c] =>
            of'[k] = stream'[c] /\ Len(merged'[k]) + (Len(wire'[k]) - b) = sent'[c]
      BY <1>4, <1>5, <1>6, <2>3, <2>7, <2>10
    <3> QED BY <1>4, <1>5, <2>7, <2>8, <2>9, <3>1 DEF Continues
  <2> QED BY <2>5, <2>6, <2>7, <2>11
<1>11. Complete(k)'
  <2>1. Len(wire'[k]) = n - 1
    BY <1>4, <1>5
  <2> QED BY <1>6, <1>10, <2>1 DEF Complete
<1>12. Counted(k)'
  <2> SUFFICES ASSUME NEW c \in Chats, k \notin misled, phase[k] \in {"reading", "dropped"},
                      of[k] = stream[c], stream[c] # None, ~ disabled[c]
               PROVE  /\ cursor'[k] = Len(merged'[k]) /\ cursor'[k] <= sent[c]
                      /\ \A i \in 1 .. n - 1 :
                           /\ wire'[k][i].kept /\ wire'[k][i].pos <= sent[c]
                           /\ wire'[k][i].again => wire'[k][i].pos <= cursor'[k]
    BY <1>4, <1>5, <1>6 DEF Counted
  <2>1. /\ cursor[k] = m /\ cursor[k] <= sent[c]
        /\ \A i \in 1 .. n :
             /\ w[i].kept /\ w[i].pos <= sent[c]
             /\ w[i].again => w[i].pos <= cursor[k]
    BY <1>2, <1>4 DEF Delivery, Counted, w
  <2>2. f.kept /\ f.pos <= sent[c] /\ (f.again => f.pos <= cursor[k])
    BY <1>4, <1>9, <2>1
  <2>3. sent[c] \in Nat
    BY DEF StreamInv, BuffersOK
  <2> HIDE DEF m
  <2>4. cursor'[k] = Len(merged'[k]) /\ cursor'[k] <= sent[c] /\ cursor[k] <= cursor'[k] /\ cursor'[k] \in Nat
    <3>1. CASE f.again
      <4>1. cursor'[k] = cursor[k]
        BY <1>3, <1>5, <1>7, <2>2, <3>1
      <4> QED BY <1>3, <1>10, <2>1, <3>1, <4>1
    <3>2. CASE ~ f.again
      <4>1. f.pos = m + 1 /\ Len(merged'[k]) = m + 1
        BY <1>10, <3>2
      <4>2. cursor'[k] = f.pos /\ cursor[k] <= f.pos
        BY <1>3, <1>5, <1>7, <2>1, <2>2, <4>1
      <4> QED BY <1>7, <2>2, <4>1, <4>2
    <3> QED BY <3>1, <3>2
  <2>5. \A i \in 1 .. n - 1 : wire'[k][i] = w[i + 1] /\ i + 1 \in 1 .. n /\ w[i + 1].pos \in Nat
    BY <1>4, <1>5, <1>8, <1>9
  <2>6. \A i \in 1 .. n : w[i].again => w[i].pos <= cursor'[k]
    BY <1>3, <1>8, <2>1, <2>4
  <2> QED BY <2>1, <2>4, <2>5, <2>6
<1>13. InStep(k)'
  <2>1. OpenIn(parts'[k], wire'[k]) = OpenIn(parts[k], w)
    BY <1>3, <1>5, OpenTail DEF f, w
  <2>2. \A c \in Chats : k \in subs[c] => OpenIn(parts[k], w) = telling[c]
    BY <1>2, InStepNow DEF Delivery, w
  <2> QED BY <1>2, <1>6, <2>1, <2>2, InStepThen
<1>14. OneTurn(k)'
  <2>1. \A i \in 1 .. n : w[i].chunk.by = of[k]
    BY <1>2, <1>4 DEF Delivery, OneTurn, w
  <2> QED BY <1>4, <1>5, <1>6, <1>9, <2>1 DEF OneTurn
<1> QED BY <1>1, <1>11, <1>12, <1>13, <1>14 DEF Delivery, Delivering

(* A stream is resumed: after the starts that are sent again comes what    *)
(* follows the cursor, which is the length of a message that goes on, and  *)
(* zero for a new one unless the tab is misled.                            *)
LEMMA ResumeDelivers ==
  ASSUME StreamInv, StreamInv', Linked, Delivering, NEW k \in Tabs, Resume(k)
  PROVE  Delivering'
<1>1. ASSUME NEW j \in Tabs, j # k PROVE Delivery(j)'
  BY <1>1, OthersDeliver DEF TabStep
<1> DEFINE c == shown[k]
           from == cursor[k]
           h == Len(events[c])
           rest == IF h >= from THEN h - from ELSE 0
           continues == phase[k] = "dropped" /\ of[k] = stream[c]
<1>2. /\ BuffersOK /\ Kept /\ TabsOK /\ TabsOK' /\ Delivery(k)
  BY DEF StreamInv, Delivering
<1>3. c \in Chats /\ from \in Nat /\ active[c] /\ ~ disabled[c] /\ phase[k] \in {"opening", "dropped"}
  BY <1>2 DEF Resume, TabsOK
<1>4. stream[c] # None /\ \A d \in Chats : k \notin subs[d]
  BY <1>3 DEF Linked, Owned, Following
<1>5. /\ wire'[k] = Replay(c, from) /\ of'[k] = stream[c] /\ parts'[k] = {} /\ cursor'[k] = from
      /\ merged'[k] = IF continues THEN merged[k] ELSE <<>>
      /\ k \in misled' <=> IF continues THEN k \in misled ELSE from > 0
      /\ \A d \in Chats : k \in subs'[d] => d = c
      /\ UNCHANGED <<stream, disabled, sent, telling>>
  <2>1. /\ wire' = [wire EXCEPT ![k] = Replay(c, from)] /\ Reads(k, stream[c])
        /\ merged' = [merged EXCEPT ![k] = IF continues THEN @ ELSE <<>>]
        /\ misled' = IF continues THEN misled
                     ELSE IF from > 0 THEN misled \cup {k} ELSE misled \ {k}
        /\ subs' = [subs EXCEPT ![c] = @ \cup {k}]
        /\ UNCHANGED <<stream, disabled, sent, telling, cursor>>
    BY DEF Resume, buffers, content
  <2> HIDE DEF c, from, continues
  <2>2. wire'[k] = Replay(c, from) /\ merged'[k] = IF continues THEN merged[k] ELSE <<>>
    BY <1>2, <2>1 DEF TabsOK
  <2>3. of'[k] = stream[c] /\ parts'[k] = {}
    BY <1>2, <2>1 DEF Reads, TabsOK
  <2>4. k \in misled' <=> IF continues THEN k \in misled ELSE from > 0
    BY <2>1
  <2>5. \A d \in Chats : k \in subs'[d] => d = c
    BY <1>2, <1>4, <2>1 DEF TabsOK
  <2>6. cursor'[k] = from
    BY <2>1 DEF from
  <2> QED BY <2>1, <2>2, <2>3, <2>4, <2>5, <2>6
<1>6. /\ events[c] \in Seq(Chunks) /\ h \in Nat /\ DOMAIN events[c] = 1 .. h
      /\ sent[c] = h /\ opened[c] \subseteq 1 .. h
      /\ \A i \in 1 .. h : events[c][i].by = stream[c]
  <2>1. events[c] \in Seq(Chunks)
    BY <1>2, <1>3 DEF BuffersOK
  <2>2. DOMAIN events[c] = 1 .. h /\ h \in Nat
    BY <2>1
  <2> HIDE DEF c
  <2> QED BY <1>2, <1>3, <2>1, <2>2 DEF Kept, KeptIn
<1>7. PICK a \in Nat : \E open : IsReplay(Replay(c, from), events[c], opened[c], from, a, open)
  BY <1>3, <1>6, ReplayIs
<1>8. PICK open : IsReplay(Replay(c, from), events[c], opened[c], from, a, open)
  BY <1>7
<1> HIDE DEF c
<1> DEFINE r == wire'[k]
<1>9. /\ open \in [1 .. a -> {i \in opened[c] : i <= from}]
      /\ r \in Seq(Frames) /\ Len(r) = a + rest
      /\ \A i \in 1 .. a :
           r[i].chunk = events[c][open[i]] /\ r[i].pos = open[i] /\ r[i].kept = TRUE /\ r[i].again = TRUE
      /\ \A i \in a + 1 .. a + rest :
           /\ r[i].chunk = events[c][from + (i - a)] /\ r[i].pos = from + (i - a)
           /\ r[i].kept = TRUE /\ r[i].again = FALSE
  <2>1. IsReplay(r, events[c], opened[c], from, a, open)
    BY <1>5, <1>8
  <2> HIDE DEF r, from
  <2> QED BY <2>1 DEF IsReplay
<1> HIDE DEF r, from, h
<1>10. /\ rest \in Nat /\ (from <= h => from + rest = h)
       /\ \A i \in a + 1 .. a + rest : from + (i - a) \in 1 .. h /\ i > a /\ ~ (i <= a)
       /\ \A i \in 1 .. a : i <= a /\ ~ (i > a)
       /\ \A i \in 1 .. a + rest : i \in 1 .. a \/ i \in a + 1 .. a + rest
       /\ a \in 0 .. a + rest /\ a + rest \in Nat
  BY <1>3, <1>6
<1> HIDE DEF rest
<1>11. DOMAIN r = 1 .. a + rest
  BY <1>9, <1>10
<1>12. \A i \in 1 .. a : open[i] \in 1 .. h /\ open[i] <= from
  <2>1. \A i \in 1 .. a : open[i] \in {x \in opened[c] : x <= from}
    BY <1>9
  <2> QED BY <1>6, <2>1
(* The cursor counts the message, unless the tab is misled. *)
<1>13. ASSUME k \notin misled'
       PROVE  /\ Len(merged'[k]) = from /\ from <= h
              /\ \A i \in DOMAIN merged'[k] : merged'[k][i] = i
  <2>1. CASE continues
    <3>1. k \notin misled /\ merged'[k] = merged[k] /\ phase[k] = "dropped" /\ of[k] = stream[c]
      BY <1>5, <1>13, <2>1
    <3>2. cursor[k] = Len(merged[k]) /\ cursor[k] <= sent[c]
      BY <1>2, <1>3, <1>4, <3>1 DEF Delivery, Counted
    <3>3. \A i \in DOMAIN merged[k] : merged[k][i] = i
      BY <1>2, <3>1 DEF Delivery, Complete
    <3> QED BY <1>6, <3>1, <3>2, <3>3 DEF from
  <2>2. CASE ~ continues
    <3>1. merged'[k] = <<>> /\ from = 0
      BY <1>3, <1>5, <1>13, <2>2
    <3>2. Len(<<>>) = 0 /\ DOMAIN <<>> = {}
      OBVIOUS
    <3> QED BY <1>6, <3>1, <3>2
  <2> QED BY <2>1, <2>2
<1>14. Complete(k)'
  <2> SUFFICES ASSUME k \notin misled' PROVE Continues(k, a)'
    BY <1>9, <1>10, <1>13 DEF Complete, r
  <2>1. Len(merged'[k]) = from /\ from <= h
    BY <1>13
  <2>2. \A i \in 1 .. a + rest : r[i].again <=> i <= a
    BY <1>9, <1>10
  <2>3. \A i \in 1 .. a + rest : i > a => r[i].pos = Len(merged'[k]) + (i - a)
    BY <1>9, <1>10, <2>1
  <2>4. from + ((a + rest) - a) = sent[c]
    BY <1>3, <1>6, <1>10, <2>1
  <2>5. \A d \in Chats : k \in subs'[d] =>
          of'[k] = stream'[d] /\ Len(merged'[k]) + (Len(r) - a) = sent'[d]
    BY <1>5, <1>9, <2>1, <2>4
  <2> QED BY <1>11, <2>2, <2>3, <2>5 DEF Continues, r
<1>15. Counted(k)'
  <2> SUFFICES ASSUME NEW d \in Chats, k \notin misled', of'[k] = stream[d], stream[d] # None
               PROVE  /\ from = Len(merged'[k]) /\ from <= sent[d]
                      /\ \A i \in 1 .. a + rest :
                           /\ r[i].kept /\ r[i].pos <= sent[d]
                           /\ r[i].again => r[i].pos <= from
    BY <1>5, <1>11 DEF Counted, r
  <2>1. d = c
    <3>1. stream[d] = stream[c] /\ c \in Chats /\ d \in Chats /\ stream[c] # None
      BY <1>3, <1>4, <1>5
    <3> QED BY <3>1 DEF Linked, Owned
  <2>2. from = Len(merged'[k]) /\ from <= h
    BY <1>13
  <2>3. \A i \in 1 .. a : r[i].pos <= h /\ r[i].pos <= from
    BY <1>6, <1>9, <1>12
  <2>4. \A i \in a + 1 .. a + rest : r[i].pos <= h
    <3>1. \A x \in 1 .. h : x <= h
      BY <1>6
    <3> QED BY <1>9, <1>10, <3>1
  <2> QED BY <1>6, <1>9, <1>10, <2>1, <2>2, <2>3, <2>4
<1>16. InStep(k)'
  <2>1. OpenIn({}, r) = telling[c]
    BY <1>2, <1>3, <1>5, ReplayOpens DEF r
  <2> QED BY <1>2, <1>5, <2>1, InStepThen DEF r
<1>17. OneTurn(k)'
  <2>1. \A i \in 1 .. a : r[i].chunk.by = stream[c]
    BY <1>6, <1>9, <1>12
  <2>2. \A i \in a + 1 .. a + rest : r[i].chunk.by = stream[c]
    <3> SUFFICES ASSUME NEW i \in a + 1 .. a + rest PROVE r[i].chunk.by = stream[c]
      OBVIOUS
    <3>1. from + (i - a) \in 1 .. h /\ r[i].chunk = events[c][from + (i - a)]
      BY <1>9, <1>10
    <3> QED BY <1>6, <3>1
  <2> QED BY <1>5, <1>10, <1>11, <2>1, <2>2 DEF OneTurn, r
<1> QED BY <1>1, <1>14, <1>15, <1>16, <1>17 DEF Delivery, Delivering

(* Nothing has been sent yet. *)
LEMMA DeliveringInit == Init => Delivering
<1> SUFFICES ASSUME Init, NEW k \in Tabs PROVE Delivery(k)
  BY DEF Delivering
<1>1. /\ wire[k] = <<>> /\ merged[k] = <<>> /\ phase[k] = "opening"
      /\ \A c \in Chats : subs[c] = {}
  BY DEF Init
<1>2. Len(<<>>) = 0 /\ DOMAIN <<>> = {} /\ 0 \in 0 .. 0
  OBVIOUS
<1>3. Continues(k, 0)
  BY <1>1, <1>2 DEF Continues
<1> QED BY <1>1, <1>2, <1>3 DEF Delivery, Counted, Complete, InStep, OneTurn

(* Every step delivers. *)
LEMMA DeliveringNext == StreamInv /\ StreamInv' /\ Linked /\ Delivering /\ [Next]_vars => Delivering'
<1> SUFFICES ASSUME StreamInv, StreamInv', Linked, Delivering, [Next]_vars PROVE Delivering'
  OBVIOUS
<1>1. ASSUME NEW t \in Turns, TurnStep(t) PROVE Delivering'
  BY <1>1, PostDelivers, PostFailsDelivers, CreateDelivers, FinishDelivers, EmitDelivers DEF TurnStep
<1>2. ASSUME NEW k \in Tabs, TabStep(k) PROVE Delivering'
  BY <1>2, ReadDelivers, ResumeDelivers, AwayDelivers DEF TabStep
<1>3. CASE Drain \/ UNCHANGED vars
  <2>1. UNCHANGED <<wire, stream, disabled, sent, telling, subs, tabs>>
    BY <1>3 DEF Drain, vars, buffers, content
  <2> QED BY <2>1, RestDelivers DEF tabs
<1> QED BY <1>1, <1>2, <1>3, FinishDelivers, CleanupDelivers, DownDelivers DEF Next

(* A tab that follows a turn gets every chunk of it once, in order and     *)
(* without a gap, knows which parts are open, and gets nothing of another  *)
(* turn: StreamRegistry's promise, for any number of turns, chats and tabs *)
(* and any limits, across overflow, replacement, drops and resumes.        *)
THEOREM StreamDelivered == Spec => []Delivered
<1>1. Delivering => Delivered
  BY DEF Delivering, Delivery, Delivered
<1> QED
  BY <1>1, StreamInit, StreamNext, LinkedInit, LinkedNext, DeliveringInit, DeliveringNext, PTL DEF Spec
=============================================================================
