------------------------- MODULE ServiceMessagesProofs -------------------------
(***************************************************************************)
(* What holds of the connection of the web application with a service, for *)
(* every set of providers and collectors and every number of messages.     *)
(***************************************************************************)
EXTENDS ServiceMessages, SequenceTheorems, TLAPS

-----------------------------------------------------------------------------
(* Types *)

Items ==
  [op : {"provider"}, id : Providers] \cup [op : {"series"}, id : Collectors, of : Providers]
    \cup [op : {"collector"}, id : Collectors, active : BOOLEAN]
    \cup [op : {"dropCollector", "dropSeries"}, id : Collectors]

StartItems == [op : {"start"}, id : Collectors, told : BOOLEAN]

\* What a message may say.
Contents(kind) ==
  IF kind \in {"ADD", "REMOVE"} THEN SUBSET Items
  ELSE IF kind = "START" THEN {{i} : i \in StartItems}
  ELSE {{}}

Unit == [n : Nat, kind : Kinds, content : SUBSET (Items \cup StartItems), part : 0..3]

\* A unit of one of the first n messages.
Sane(u, n) == u.n \in 1..n /\ u.content \in Contents(u.kind)

\* Units follow each other within a message; a message follows another.
Follows(u, v) == v.part = 0 \/ v.part = u.part + 1

\* A stretch of the units of the first n messages.
Stretch(s, n) ==
  /\ s \in Seq(Unit)
  /\ \A k \in 1..Len(s) : Sane(s[k], n)
  /\ \A k \in 1..(Len(s) - 1) : Follows(s[k], s[k + 1])

Joined(s, t) == s # <<>> /\ t # <<>> => Follows(s[Len(s)], t[1])

\* What is sent is a stretch, wherever the socket has cut it.
Stream == Stretch(wire, sent) /\ Stretch(buffer, sent) /\ Joined(buffer, wire)

TypeInv ==
  /\ TypeOK /\ Stream
  /\ answers \in Seq({"unloaded", "loaded"})
  /\ work \subseteq Items /\ snapshot \subseteq Items

LEMMA LongerStretch ==
  ASSUME NEW m \in Nat, NEW n \in Nat, m <= n, NEW s, Stretch(s, m)
  PROVE  Stretch(s, n)
<1>1. \A k \in 1..Len(s) : Sane(s[k], n)
  <2>1. 1..m \subseteq 1..n
    OBVIOUS
  <2>. QED BY <2>1 DEF Stretch, Sane
<1>. QED BY <1>1 DEF Stretch

LEMMA NoStretch ==
  ASSUME NEW n
  PROVE  Stretch(<<>>, n)
<1>1. <<>> \in Seq(Unit) /\ Len(<<>>) = 0
  OBVIOUS
<1>. QED BY <1>1 DEF Stretch

LEMMA UnitsAre ==
  ASSUME NEW m \in Nat, NEW kind \in Kinds, NEW content
  PROVE  /\ JsonUnits(kind) \in 1..2
         /\ Len(Units(m, kind, content)) = 2 + JsonUnits(kind)
         /\ \A k \in 1..(2 + JsonUnits(kind)) :
              Units(m, kind, content)[k] = [n |-> m, kind |-> kind, content |-> content, part |-> k - 1]
<1>1. JsonUnits(kind) \in 1..2
  BY DEF JsonUnits
<1>2. \A k \in 1..(2 + JsonUnits(kind)) :
        Units(m, kind, content)[k] = [n |-> m, kind |-> kind, content |-> content, part |-> k - 1]
  BY DEF Units
<1>3. PICK l \in 3..4 : l = 2 + JsonUnits(kind)
  BY <1>1
<1>. DEFINE at(k) == [n |-> m, kind |-> kind, content |-> content, part |-> k - 1]
            S == {at(k) : k \in 1..l}
<1>4. Units(m, kind, content) = [k \in 1..l |-> at(k)]
  BY <1>3 DEF Units
<1>5. [k \in 1..l |-> at(k)] \in Seq(S)
  <2>1. \A k \in 1..l : at(k) \in S
    OBVIOUS
  <2>. HIDE DEF at, S
  <2>. QED BY <2>1, IsASeq
<1>6. Len(Units(m, kind, content)) = l
  <2>1. DOMAIN [k \in 1..l |-> at(k)] = 1..l
    OBVIOUS
  <2>2. DOMAIN [k \in 1..l |-> at(k)] = 1..Len([k \in 1..l |-> at(k)]) /\ Len([k \in 1..l |-> at(k)]) \in Nat
    BY <1>5, LenProperties
  <2>. HIDE DEF at
  <2>. QED BY <1>4, <2>1, <2>2
<1>. QED BY <1>1, <1>2, <1>3, <1>6

\* A message is a stretch that begins with a size.
LEMMA UnitsStretch ==
  ASSUME NEW m \in Nat \ {0}, NEW kind \in Kinds, NEW content \in Contents(kind)
  PROVE  /\ Stretch(Units(m, kind, content), m)
         /\ Units(m, kind, content) # <<>> /\ Units(m, kind, content)[1].part = 0
<1>. DEFINE s == Units(m, kind, content)
            l == 2 + JsonUnits(kind)
            at(k) == [n |-> m, kind |-> kind, content |-> content, part |-> k - 1]
<1>1. l \in 3..4 /\ Len(s) = l /\ \A k \in 1..l : s[k] = at(k)
  BY UnitsAre
<1>2. content \in SUBSET (Items \cup StartItems)
  BY DEF Contents
<1>3. \A k \in 1..l : k - 1 \in 0..3
  BY <1>1
<1>4. \A k \in 1..l : at(k) \in Unit /\ Sane(at(k), m)
  BY <1>2, <1>3 DEF Unit, Sane
<1>5. s = [k \in 1..l |-> at(k)]
  BY DEF Units
<1>6. s \in Seq(Unit)
  BY <1>1, <1>4, <1>5, IsASeq
<1>7. \A k \in 1..(l - 1) : Follows(s[k], s[k + 1])
  <2>. SUFFICES ASSUME NEW k \in 1..(l - 1) PROVE Follows(s[k], s[k + 1])
    OBVIOUS
  <2>1. k \in 1..l /\ k + 1 \in 1..l
    BY <1>1
  <2>2. s[k].part = k - 1 /\ s[k + 1].part = k
    BY <1>1, <2>1
  <2>. QED BY <2>2 DEF Follows
<1>8. s[1].part = 0
  BY <1>1
<1>. HIDE DEF s, l
<1>9. Stretch(s, m)
  BY <1>1, <1>4, <1>6, <1>7 DEF Stretch
<1>10. s # <<>>
  BY <1>1
<1>. QED BY <1>8, <1>9, <1>10 DEF s

LEMMA ConcatStretch ==
  ASSUME NEW n, NEW s, NEW t, Stretch(s, n), Stretch(t, n), Joined(s, t)
  PROVE  Stretch(s \o t, n)
<1>1. /\ s \in Seq(Unit) /\ t \in Seq(Unit)
      /\ \A k \in 1..Len(s) : Sane(s[k], n)
      /\ \A k \in 1..(Len(s) - 1) : Follows(s[k], s[k + 1])
      /\ \A k \in 1..Len(t) : Sane(t[k], n)
      /\ \A k \in 1..(Len(t) - 1) : Follows(t[k], t[k + 1])
  BY DEF Stretch
<1>2. /\ s \o t \in Seq(Unit) /\ Len(s \o t) = Len(s) + Len(t)
      /\ \A k \in 1..(Len(s) + Len(t)) : (s \o t)[k] = IF k <= Len(s) THEN s[k] ELSE t[k - Len(s)]
  BY <1>1, ConcatProperties
<1>3. Len(s) \in Nat /\ Len(t) \in Nat
  BY <1>1
<1>4. \A k \in 1..Len(s \o t) : Sane((s \o t)[k], n)
  <2>. SUFFICES ASSUME NEW k \in 1..(Len(s) + Len(t)) PROVE Sane((s \o t)[k], n)
    BY <1>2
  <2>1. k <= Len(s) => k \in 1..Len(s)
    BY <1>3
  <2>2. ~(k <= Len(s)) => k - Len(s) \in 1..Len(t)
    BY <1>3
  <2>. QED BY <1>1, <1>2, <2>1, <2>2
<1>5. \A k \in 1..(Len(s \o t) - 1) : Follows((s \o t)[k], (s \o t)[k + 1])
  <2>. SUFFICES ASSUME NEW k \in 1..(Len(s) + Len(t) - 1) PROVE Follows((s \o t)[k], (s \o t)[k + 1])
    BY <1>2
  <2>0. k \in 1..(Len(s) + Len(t)) /\ k + 1 \in 1..(Len(s) + Len(t))
    BY <1>3
  <2>1. CASE k < Len(s)
    <3>1. k \in 1..(Len(s) - 1) /\ k <= Len(s) /\ k + 1 <= Len(s)
      BY <1>3, <2>1
    <3>. QED BY <1>1, <1>2, <2>0, <3>1
  <2>2. CASE k = Len(s)
    <3>1. s # <<>> /\ t # <<>> /\ k + 1 - Len(s) = 1 /\ ~(k + 1 <= Len(s))
      BY <1>1, <1>3, <2>2
    <3>2. Follows(s[Len(s)], t[1])
      BY <3>1 DEF Joined
    <3>. QED BY <1>2, <2>0, <2>2, <3>1, <3>2
  <2>3. CASE k > Len(s)
    <3>1. k - Len(s) \in 1..(Len(t) - 1) /\ (k + 1) - Len(s) = (k - Len(s)) + 1
          /\ ~(k <= Len(s)) /\ ~(k + 1 <= Len(s))
      BY <1>3, <2>3
    <3>. QED BY <1>1, <1>2, <2>0, <3>1
  <2>. QED BY <1>3, <2>1, <2>2, <2>3
<1>. QED BY <1>2, <1>4, <1>5 DEF Stretch

\* The rest of a stretch.
LEMMA RestStretch ==
  ASSUME NEW n, NEW s, Stretch(s, n), NEW m \in 1..(Len(s) + 1)
  PROVE  Stretch(SubSeq(s, m, Len(s)), n)
<1>1. /\ s \in Seq(Unit)
      /\ \A k \in 1..Len(s) : Sane(s[k], n)
      /\ \A k \in 1..(Len(s) - 1) : Follows(s[k], s[k + 1])
  BY DEF Stretch
<1>. DEFINE t == SubSeq(s, m, Len(s))
<1>2. Len(s) \in Nat
  BY <1>1
<1>3. t \in Seq(Unit) /\ Len(t) = Len(s) - m + 1 /\ \A k \in 1..(Len(s) - m + 1) : t[k] = s[m + k - 1]
  BY <1>1, <1>2
<1>. HIDE DEF t
<1>4. \A k \in 1..Len(t) : Sane(t[k], n)
  <2>. SUFFICES ASSUME NEW k \in 1..(Len(s) - m + 1) PROVE Sane(t[k], n)
    BY <1>3
  <2>1. m + k - 1 \in 1..Len(s)
    BY <1>2
  <2>. QED BY <1>1, <1>3, <2>1
<1>5. \A k \in 1..(Len(t) - 1) : Follows(t[k], t[k + 1])
  <2>. SUFFICES ASSUME NEW k \in 1..(Len(s) - m) PROVE Follows(t[k], t[k + 1])
    BY <1>3
  <2>1. m + k - 1 \in 1..(Len(s) - 1) /\ k \in 1..(Len(s) - m + 1) /\ k + 1 \in 1..(Len(s) - m + 1)
    BY <1>2
  <2>2. m + (k + 1) - 1 = (m + k - 1) + 1
    BY <1>2
  <2>. QED BY <1>1, <1>3, <2>1, <2>2
<1>. QED BY <1>3, <1>4, <1>5 DEF Stretch, t

LEMMA TailStretch ==
  ASSUME NEW n, NEW s, Stretch(s, n), s # <<>>
  PROVE  /\ Stretch(Tail(s), n) /\ Len(Tail(s)) = Len(s) - 1
         /\ \A k \in 1..(Len(s) - 1) : Tail(s)[k] = s[k + 1]
<1>1. s \in Seq(Unit)
  BY DEF Stretch
<1>2. Len(s) \in Nat /\ Len(s) >= 1
  BY <1>1
<1>3. Tail(s) = SubSeq(s, 2, Len(s))
  BY <1>1, <1>2
<1>4. 2 \in 1..(Len(s) + 1)
  BY <1>2
<1>5. Stretch(SubSeq(s, 2, Len(s)), n)
  BY <1>4, RestStretch
<1>6. Len(Tail(s)) = Len(s) - 1 /\ \A k \in 1..(Len(s) - 1) : Tail(s)[k] = s[k + 1]
  BY <1>1, <1>2, HeadTailProperties
<1>. QED BY <1>3, <1>5, <1>6

DbType ==
  dbProviders \subseteq Providers /\ dbActive \subseteq Collectors /\ dbSeries \in [Collectors -> Providers \cup {None}]
ClientType == phase \in Phases /\ snapshot \subseteq Items /\ sent \in Nat /\ answers \in Seq({"unloaded", "loaded"})
ReaderType == blockSize \in 0..Huge /\ last \in 0..sent /\ ready \in BOOLEAN
StateType == service \in {"down", "up", "loaded"} /\ valid \in BOOLEAN /\ stopping \in BOOLEAN
RegistryType ==
  /\ providers \subseteq Providers /\ timers \subseteq Collectors /\ blocked \in BOOLEAN
  /\ series \in [Collectors -> Providers \cup {None}] /\ collectors \in [Collectors -> {"none", "on", "off"}]

LEMMA TypeParts ==
  TypeInv <=> /\ DbType /\ ClientType /\ Stream /\ ReaderType /\ StateType /\ RegistryType
              /\ work \subseteq Items /\ trouble \subseteq Troubles
<1>1. Stream => \A u \in {wire[k] : k \in DOMAIN wire} \cup {buffer[k] : k \in DOMAIN buffer} :
                  u.kind \in Kinds /\ u.n \in 1..sent /\ u.part \in 0..3
  <2>. SUFFICES ASSUME NEW s, Stretch(s, sent), NEW k \in DOMAIN s
                PROVE  s[k].kind \in Kinds /\ s[k].n \in 1..sent /\ s[k].part \in 0..3
    BY DEF Stream
  <2>1. s \in Seq(Unit) /\ k \in 1..Len(s)
    BY DEF Stretch
  <2>2. s[k] \in Unit /\ Sane(s[k], sent)
    BY <2>1 DEF Stretch
  <2>. QED BY <2>2 DEF Unit, Sane
<1>2. answers \in Seq({"unloaded", "loaded"}) => \A k \in DOMAIN answers : answers[k] \in {"unloaded", "loaded"}
  OBVIOUS
<1>. QED BY <1>1, <1>2 DEF TypeInv, TypeOK, DbType, ClientType, ReaderType, StateType, RegistryType

LEMMA TypePartsNext ==
  TypeInv' <=> /\ DbType' /\ ClientType' /\ Stream' /\ ReaderType' /\ StateType' /\ RegistryType'
               /\ work' \subseteq Items /\ trouble' \subseteq Troubles
<1>1. Stream' => \A u \in {wire'[k] : k \in DOMAIN wire'} \cup {buffer'[k] : k \in DOMAIN buffer'} :
                  u.kind \in Kinds /\ u.n \in 1..sent' /\ u.part \in 0..3
  <2>. SUFFICES ASSUME NEW s, NEW n, Stretch(s, n), NEW k \in DOMAIN s
                PROVE  s[k].kind \in Kinds /\ s[k].n \in 1..n /\ s[k].part \in 0..3
    BY DEF Stream
  <2>1. s \in Seq(Unit) /\ k \in 1..Len(s)
    BY DEF Stretch
  <2>2. s[k] \in Unit /\ Sane(s[k], n)
    BY <2>1 DEF Stretch
  <2>. QED BY <2>2 DEF Unit, Sane
<1>2. answers' \in Seq({"unloaded", "loaded"}) => \A k \in DOMAIN answers' : answers'[k] \in {"unloaded", "loaded"}
  OBVIOUS
<1>. QED BY <1>1, <1>2 DEF TypeInv, TypeOK, DbType, ClientType, ReaderType, StateType, RegistryType

LEMMA SentStream ==
  ASSUME TypeInv, NEW kind \in Kinds, NEW content \in Contents(kind),
         sent' = sent + 1, wire' = wire \o Units(sent + 1, kind, content), buffer' = buffer
  PROVE  Stream'
<1>1. sent \in Nat /\ sent + 1 \in Nat \ {0} /\ sent <= sent + 1 /\ Stream
  BY TypeParts DEF ClientType
<1>2. Stretch(wire, sent + 1) /\ Stretch(buffer, sent + 1)
  BY <1>1, LongerStretch DEF Stream
<1>. DEFINE u == Units(sent + 1, kind, content)
<1>3. Stretch(u, sent + 1) /\ u # <<>> /\ u[1].part = 0
  BY <1>1, UnitsStretch
<1>. HIDE DEF u
<1>4. Joined(wire, u)
  BY <1>3 DEF Joined, Follows
<1>5. Stretch(wire \o u, sent + 1)
  BY <1>2, <1>3, <1>4, ConcatStretch
<1>6. Joined(buffer, wire \o u)
  <2>1. wire \in Seq(Unit) /\ u \in Seq(Unit)
    BY <1>2, <1>3 DEF Stretch
  <2>2. CASE wire = <<>>
    BY <1>3, <2>1, <2>2 DEF Joined, Follows
  <2>3. CASE wire # <<>>
    <3>1. (wire \o u)[1] = wire[1]
      BY <2>1, <2>3
    <3>. QED BY <1>1, <2>3, <3>1 DEF Stream, Joined
  <2>. QED BY <2>2, <2>3
<1>. QED BY <1>2, <1>5, <1>6 DEF Stream, u

LEMMA SentBothStream ==
  ASSUME TypeInv, NEW kind1 \in Kinds, NEW content \in Contents(kind1), NEW kind2 \in Kinds, Contents(kind2) = {{}},
         SendBoth(kind1, content, kind2), buffer' = buffer
  PROVE  Stream'
<1>1. sent \in Nat /\ sent + 1 \in Nat \ {0} /\ sent + 2 \in Nat \ {0} /\ Stream
  BY TypeParts DEF ClientType
<1>2. Stretch(wire, sent + 2) /\ Stretch(buffer, sent + 2)
  BY <1>1, LongerStretch DEF Stream
<1>. DEFINE u == Units(sent + 1, kind1, content)
            v == Units(sent + 2, kind2, {})
<1>3. Stretch(u, sent + 1) /\ u # <<>> /\ u[1].part = 0
  BY <1>1, UnitsStretch
<1>4. Stretch(v, sent + 2) /\ v # <<>> /\ v[1].part = 0
  <2>1. {} \in Contents(kind2)
    OBVIOUS
  <2>. QED BY <1>1, <2>1, UnitsStretch
<1>5. wire' = (wire \o u) \o v /\ sent' = sent + 2
  BY DEF SendBoth
<1>. HIDE DEF u, v
<1>6. Stretch(u, sent + 2)
  BY <1>1, <1>3, LongerStretch
<1>7. Joined(wire, u) /\ Joined(wire \o u, v)
  BY <1>3, <1>4 DEF Joined, Follows
<1>8. Stretch(wire \o u, sent + 2)
  BY <1>2, <1>6, <1>7, ConcatStretch
<1>9. Stretch((wire \o u) \o v, sent + 2)
  BY <1>4, <1>7, <1>8, ConcatStretch
<1>10. Joined(buffer, (wire \o u) \o v)
  <2>1. wire \in Seq(Unit) /\ u \in Seq(Unit) /\ v \in Seq(Unit)
    BY <1>2, <1>3, <1>4 DEF Stretch
  <2>2. CASE wire = <<>>
    <3>1. ((wire \o u) \o v)[1] = u[1]
      BY <1>3, <2>1, <2>2
    <3>. QED BY <1>3, <3>1 DEF Joined, Follows
  <2>3. CASE wire # <<>>
    <3>1. ((wire \o u) \o v)[1] = wire[1]
      BY <2>1, <2>3
    <3>. QED BY <1>1, <2>3, <3>1 DEF Stream, Joined
  <2>. QED BY <2>2, <2>3
<1>. QED BY <1>2, <1>5, <1>9, <1>10 DEF Stream

LEMMA ArriveStream ==
  ASSUME TypeInv, Arrive
  PROVE  Stream'
<1>1. /\ sent \in Nat /\ sent' = sent /\ Stream /\ wire # <<>>
      /\ buffer' = Append(buffer, Head(wire)) /\ wire' = Tail(wire)
  BY TypeParts DEF ClientType, Arrive, client
<1>2. wire \in Seq(Unit) /\ buffer \in Seq(Unit) /\ Stretch(wire, sent) /\ Stretch(buffer, sent) /\ Joined(buffer, wire)
  BY <1>1 DEF Stream, Stretch
<1>3. Len(wire) \in Nat /\ Len(wire) >= 1 /\ Head(wire) = wire[1] /\ wire[1] \in Unit
  BY <1>1, <1>2
<1>4. Stretch(Tail(wire), sent) /\ Len(Tail(wire)) = Len(wire) - 1
      /\ \A k \in 1..(Len(wire) - 1) : Tail(wire)[k] = wire[k + 1]
  BY <1>1, <1>2, TailStretch
<1>. DEFINE h == <<wire[1]>>
<1>5. Stretch(h, sent)
  <2>1. h \in Seq(Unit) /\ Len(h) = 1 /\ h[1] = wire[1]
    BY <1>3
  <2>2. Sane(wire[1], sent)
    BY <1>2, <1>3 DEF Stretch
  <2>. HIDE DEF h
  <2>. QED BY <2>1, <2>2 DEF Stretch
<1>6. Joined(buffer, h)
  BY <1>1, <1>2 DEF Joined
<1>7. Append(buffer, Head(wire)) = buffer \o h
  BY <1>2, <1>3, AppendIsConcat
<1>8. Stretch(buffer', sent)
  <2>. HIDE DEF h
  <2>. QED BY <1>1, <1>2, <1>5, <1>6, <1>7, ConcatStretch
<1>9. Joined(buffer', wire')
  <2>. SUFFICES ASSUME Tail(wire) # <<>> PROVE Follows(buffer'[Len(buffer')], Tail(wire)[1])
    BY <1>1 DEF Joined
  <2>1. Len(wire) >= 2
    BY <1>2, <1>3, <1>4, EmptySeq
  <2>2. Tail(wire)[1] = wire[2]
    BY <1>3, <1>4, <2>1
  <2>3. buffer'[Len(buffer')] = wire[1]
    BY <1>1, <1>2, <1>3, AppendProperties
  <2>4. Follows(wire[1], wire[2])
    <3>1. 1 \in 1..(Len(wire) - 1)
      BY <1>3, <2>1
    <3>2. \A k \in 1..(Len(wire) - 1) : Follows(wire[k], wire[k + 1])
      BY <1>2 DEF Stretch
    <3>3. Follows(wire[1], wire[1 + 1])
      BY <3>1, <3>2
    <3>. QED BY <3>3
  <2>. QED BY <2>2, <2>3, <2>4
<1>. QED BY <1>1, <1>4, <1>8, <1>9 DEF Stream

\* What is behind the size in the buffer.
LEMMA BehindStretch ==
  ASSUME TypeInv, buffer # <<>> \/ blockSize # 0
  PROVE  /\ Stretch(Behind, sent) /\ Joined(Behind, wire) /\ Size \in 0..Huge
         /\ Behind # <<>> /\ Head(Behind).part = 1 => Size >= 1
<1>1. Stretch(buffer, sent) /\ Joined(buffer, wire) /\ buffer \in Seq(Unit) /\ blockSize \in 0..Huge
  BY TypeParts DEF Stream, Stretch, ReaderType
<1>2. CASE blockSize # 0
  BY <1>1, <1>2 DEF Behind, Size, Huge
<1>3. CASE blockSize = 0
  <2>1. buffer # <<>> /\ Behind = Tail(buffer) /\ Size = AsSize(Head(buffer))
    BY <1>3 DEF Behind, Size
  <2>2. Stretch(Tail(buffer), sent) /\ Len(Tail(buffer)) = Len(buffer) - 1
        /\ \A k \in 1..(Len(buffer) - 1) : Tail(buffer)[k] = buffer[k + 1]
    BY <1>1, <2>1, TailStretch
  <2>3. Len(buffer) \in Nat /\ Len(buffer) >= 1 /\ Tail(buffer) \in Seq(Unit)
        /\ Head(buffer) = buffer[1] /\ buffer[1] \in Unit
    BY <1>1, <2>1
  <2>4. Tail(buffer) # <<>> => Len(buffer) >= 2
    BY <2>2, <2>3, EmptySeq
  <2>5. Joined(Tail(buffer), wire)
    <3>. SUFFICES ASSUME Tail(buffer) # <<>>, wire # <<>>
                  PROVE  Follows(Tail(buffer)[Len(Tail(buffer))], wire[1])
      BY DEF Joined
    <3>1. Len(buffer) - 1 \in 1..(Len(buffer) - 1)
      BY <2>3, <2>4
    <3>2. Tail(buffer)[Len(buffer) - 1] = buffer[(Len(buffer) - 1) + 1]
      BY <2>2, <3>1
    <3>3. (Len(buffer) - 1) + 1 = Len(buffer)
      BY <2>3
    <3>. QED BY <1>1, <2>1, <2>2, <3>2, <3>3 DEF Joined
  <2>6. Size \in 0..Huge
    <3>1. JsonUnits(buffer[1].kind) \in 1..2
      BY DEF JsonUnits
    <3>2. PICK j \in 1..2 : j = JsonUnits(buffer[1].kind)
      BY <3>1
    <3>3. AsSize(buffer[1]) \in {1 + j, 0, 1, Huge}
      BY <3>2 DEF AsSize
    <3>4. 1 + j \in 0..Huge /\ 0 \in 0..Huge /\ 1 \in 0..Huge /\ Huge \in 0..Huge
      BY DEF Huge
    <3>. QED BY <2>1, <2>3, <3>3, <3>4
  <2>7. ASSUME Tail(buffer) # <<>>, Head(Tail(buffer)).part = 1 PROVE Size >= 1
    <3>1. Head(Tail(buffer)) = buffer[2]
      BY <2>2, <2>3, <2>4, <2>7
    <3>2. Follows(buffer[1], buffer[2])
      <4>1. 1 \in 1..(Len(buffer) - 1)
        BY <2>3, <2>4, <2>7
      <4>2. \A k \in 1..(Len(buffer) - 1) : Follows(buffer[k], buffer[k + 1])
        BY <1>1 DEF Stretch
      <4>3. Follows(buffer[1], buffer[1 + 1])
        BY <4>1, <4>2
      <4>. QED BY <4>3
    <3>3. buffer[1].part = 0
      <4>1. buffer[1].part \in 0..3
        BY <2>3 DEF Unit
      <4>. QED BY <2>7, <3>1, <3>2, <4>1 DEF Follows
    <3>4. JsonUnits(buffer[1].kind) \in 1..2
      BY DEF JsonUnits
    <3>. QED BY <2>1, <2>3, <3>3, <3>4 DEF AsSize
  <2>. QED BY <2>1, <2>2, <2>5, <2>6, <2>7
<1>. QED BY <1>2, <1>3

LEMMA EmptyStream ==
  ASSUME TypeInv, sent' = sent, wire' = wire, buffer' = <<>>
  PROVE  Stream'
BY TypeParts, NoStretch DEF Stream, Joined

\* A message that the slot takes for one.
LEMMA HeadType ==
  ASSUME TypeInv, AtHand, Recognized
  PROVE  /\ Head(Behind).n \in 1..sent /\ Head(Behind).kind \in Kinds
         /\ Head(Behind).content \in Contents(Head(Behind).kind)
<1>1. Stretch(Behind, sent) /\ Behind # <<>>
  BY BehindStretch DEF AtHand, Recognized
<1>2. Behind \in Seq(Unit) /\ 1 \in 1..Len(Behind) /\ Head(Behind) = Behind[1]
  BY <1>1 DEF Stretch
<1>3. Sane(Behind[1], sent) /\ Behind[1] \in Unit
  BY <1>1, <1>2 DEF Stretch
<1>. QED BY <1>2, <1>3 DEF Sane, Unit

LEMMA FreshType ==
  ASSUME TypeInv, Fresh
  PROVE  TypeInv'
<1>0. 0 \in 0..100 /\ 0 \in 0..0 /\ {} \subseteq Items /\ <<>> \in Seq({"unloaded", "loaded"})
  OBVIOUS
<1>1. DbType' /\ StateType'
  BY TypeParts DEF Fresh, database, DbType, StateType
<1>4. ClientType'
  BY <1>0 DEF Fresh, ClientType, Phases
<1>5. ReaderType'
  BY <1>0 DEF Fresh, ReaderType, Huge
<1>2. RegistryType' /\ work' \subseteq Items /\ trouble' \subseteq Troubles
  BY DEF Fresh, RegistryType
<1>3. Stream'
  BY NoStretch DEF Fresh, Stream, Joined
<1>. QED BY <1>1, <1>2, <1>3, <1>4, <1>5, TypePartsNext

LEMMA TypeInit == Init => TypeInv
<1>. SUFFICES ASSUME Init PROVE TypeInv
  OBVIOUS
<1>0. 0 \in 0..100 /\ 0 \in 0..0 /\ {} \subseteq Items /\ <<>> \in Seq({"unloaded", "loaded"})
  OBVIOUS
<1>1. DbType /\ StateType
  BY DEF Init, DbType, StateType
<1>4. ClientType
  BY <1>0 DEF Init, ClientType, Phases
<1>5. ReaderType
  BY <1>0 DEF Init, ReaderType, Huge
<1>2. RegistryType /\ work \subseteq Items /\ trouble \subseteq Troubles
  BY DEF Init, RegistryType
<1>3. Stream
  BY NoStretch DEF Init, Stream, Joined
<1>. QED BY <1>1, <1>2, <1>3, <1>4, <1>5, TypeParts

\* An edit of the user: the database changes in its own way.
LEMMA EditType ==
  ASSUME TypeInv, NEW kind \in {"ADD", "REMOVE"}, NEW content \in SUBSET Items, Edit(kind, content), DbType'
  PROVE  TypeInv'
<1>0. DbType /\ ClientType /\ Stream /\ ReaderType /\ StateType /\ RegistryType
      /\ work \subseteq Items /\ trouble \subseteq Troubles
  BY TypeParts
<1>1. kind \in Kinds /\ content \in Contents(kind)
  BY DEF Kinds, Contents
<1>2. ClientType' /\ Stream'
  <2>1. CASE sent' = sent + 1 /\ wire' = wire \o Units(sent + 1, kind, content)
    <3>1. Stream'
      BY <1>1, <2>1, SentStream DEF Edit
    <3>. QED BY <1>0, <2>1, <3>1 DEF Edit, ClientType
  <2>2. CASE UNCHANGED <<sent, wire>>
    BY <1>0, <2>2 DEF Edit, ClientType, Stream
  <2>. QED BY <2>1, <2>2 DEF Edit
<1>3. sent <= sent' /\ sent \in Nat /\ sent' \in Nat
  BY <1>0 DEF Edit, ClientType
<1>4. ReaderType'
  <2>1. 0..sent \subseteq 0..sent'
    BY <1>3
  <2>. QED BY <1>0, <2>1 DEF Edit, ReaderType, reader
<1>5. StateType' /\ RegistryType' /\ work' \subseteq Items /\ trouble' \subseteq Troubles
  BY <1>0 DEF Edit, StateType, RegistryType, state, registry, schedule, Burst, Troubles
<1>. QED BY <1>2, <1>4, <1>5, TypePartsNext

\* What the client sends by itself.
LEMMA SendType ==
  ASSUME TypeInv, NEW kind \in Kinds, NEW content \in Contents(kind), Send(kind, content), UNCHANGED buffer
  PROVE  Stream' /\ sent' \in Nat /\ 0..sent \subseteq 0..sent' /\ trouble' \subseteq Troubles
<1>1. sent \in Nat /\ trouble \subseteq Troubles
  BY TypeParts DEF ClientType
<1>2. Stream'
  BY SentStream DEF Send
<1>3. trouble' \subseteq Troubles
  BY <1>1 DEF Send, Burst, Troubles
<1>. QED BY <1>1, <1>2, <1>3 DEF Send

LEMMA ItemsAre ==
  /\ \A p \in Providers : ProviderItem(p) \in Items
  /\ \A c \in Collectors, p \in Providers : SeriesItem(c, p) \in Items
  /\ \A c \in Collectors, on \in BOOLEAN : CollectorItem(c, on) \in Items
  /\ \A c \in Collectors : Drop(c) \subseteq Items
BY DEF ProviderItem, SeriesItem, CollectorItem, Drop, Items

LEMMA UserType ==
  ASSUME TypeInv, User
  PROVE  TypeInv'
<1>0. DbType /\ ClientType /\ Stream /\ ReaderType /\ StateType /\ RegistryType
      /\ work \subseteq Items /\ trouble \subseteq Troubles
  BY TypeParts
<1>1. ASSUME NEW p \in Providers, AddProvider(p) PROVE TypeInv'
  <2>1. {ProviderItem(p)} \in SUBSET Items /\ DbType'
    BY <1>0, <1>1, ItemsAre DEF AddProvider, DbType
  <2>. QED BY <1>1, <2>1, EditType DEF AddProvider
<1>2. ASSUME NEW p \in Providers, RemoveProvider(p) PROVE TypeInv'
  <2>1. {} \in SUBSET Items /\ DbType'
    BY <1>0, <1>2 DEF RemoveProvider, DbType
  <2>. QED BY <1>2, <2>1, EditType DEF RemoveProvider
<1>3. ASSUME NEW c \in Collectors, RemoveCollector(c) PROVE TypeInv'
  <2>1. Drop(c) \in SUBSET Items /\ DbType'
    BY <1>0, <1>3, ItemsAre DEF RemoveCollector, DbType
  <2>. QED BY <1>3, <2>1, EditType DEF RemoveCollector
<1>4. ASSUME NEW c \in Collectors, NEW p \in Providers, NEW on \in BOOLEAN, SaveCollector(c, p, on) PROVE TypeInv'
  <2>1. {SeriesItem(c, p), CollectorItem(c, on)} \in SUBSET Items /\ DbType'
    BY <1>0, <1>4, ItemsAre DEF SaveCollector, DbType
  <2>. QED BY <1>4, <2>1, EditType DEF SaveCollector
<1>5. ASSUME NEW what \in Requests, Request(what) PROVE TypeInv'
  <2>1. Stream' /\ sent' \in Nat /\ 0..sent \subseteq 0..sent' /\ trouble' \subseteq Troubles
    <3>1. CASE Send("STATUS", {})
      <4>1. "STATUS" \in Kinds /\ {} \in Contents("STATUS")
        BY DEF Kinds, Contents
      <4>. QED BY <1>5, <3>1, <4>1, SendType DEF Request
    <3>2. ASSUME NEW kind1 \in Kinds, NEW content \in Contents(kind1), NEW kind2 \in Kinds,
                 Contents(kind2) = {{}}, SendBoth(kind1, content, kind2)
          PROVE  Stream' /\ sent' \in Nat /\ 0..sent \subseteq 0..sent' /\ trouble' \subseteq Troubles
      <4>1. Stream'
        BY <1>5, <3>2, SentBothStream DEF Request
      <4>. QED BY <1>0, <3>2, <4>1 DEF SendBoth, ClientType, Troubles
    <3>3. CASE SendBoth("TERMINATE", {}, "STATUS")
      <4>1. /\ "TERMINATE" \in Kinds /\ "STATUS" \in Kinds
            /\ {} \in Contents("TERMINATE") /\ Contents("STATUS") = {{}}
        BY DEF Kinds, Contents
      <4>. QED BY <3>2, <3>3, <4>1
    <3>4. ASSUME NEW c \in Collectors, SendBoth("START", {StartItem(c)}, "LOG")
          PROVE  Stream' /\ sent' \in Nat /\ 0..sent \subseteq 0..sent' /\ trouble' \subseteq Troubles
      <4>1. StartItem(c) \in StartItems
        <5>1. Told \in BOOLEAN
          BY DEF Told
        <5>. QED BY <5>1 DEF StartItem, StartItems
      <4>2. /\ "START" \in Kinds /\ "LOG" \in Kinds
            /\ {StartItem(c)} \in Contents("START") /\ Contents("LOG") = {{}}
        BY <4>1 DEF Kinds, Contents
      <4>. QED BY <3>2, <3>4, <4>2
    <3>. QED BY <1>5, <3>1, <3>3, <3>4 DEF Request
  <2>2. ClientType' /\ ReaderType'
    BY <1>0, <1>5, <2>1 DEF Request, ClientType, ReaderType, reader
  <2>. QED BY <1>0, <1>5, <2>1, <2>2, TypePartsNext DEF Request, DbType, StateType, RegistryType, state, registry, schedule
<1>. QED BY <1>1, <1>2, <1>3, <1>4, <1>5 DEF User

LEMMA ClientStepType ==
  ASSUME TypeInv, Connect \/ Client
  PROVE  TypeInv'
<1>0. DbType /\ ClientType /\ Stream /\ ReaderType /\ StateType /\ RegistryType
      /\ work \subseteq Items /\ trouble \subseteq Troubles
  BY TypeParts
<1>a. "STATUS" \in Kinds /\ "UPDATE" \in Kinds /\ "ADD" \in Kinds /\ {} \in Contents("STATUS")
      /\ {} \in Contents("UPDATE") /\ snapshot \in Contents("ADD")
  BY <1>0 DEF Kinds, Contents, ClientType
<1>1. CASE Connect
  <2>1. Stream' /\ sent' \in Nat /\ 0..sent \subseteq 0..sent' /\ trouble' \subseteq Troubles
    BY <1>1, <1>a, SendType DEF Connect
  <2>2. ClientType' /\ ReaderType'
    BY <1>0, <1>1, <2>1 DEF Connect, ClientType, ReaderType, reader, Phases
  <2>. QED BY <1>0, <1>1, <2>1, <2>2, TypePartsNext DEF Connect, database, DbType, StateType, RegistryType, state, registry, schedule
<1>2. CASE OnStatus
  <2>0. answers' \in Seq({"unloaded", "loaded"})
    BY <1>0, <1>2 DEF OnStatus, ClientType
  <2>1. Stream' /\ sent' \in Nat /\ 0..sent \subseteq 0..sent' /\ trouble' \subseteq Troubles
    <3>1. CASE Send("UPDATE", {})
      BY <1>2, <1>a, <3>1, SendType DEF OnStatus
    <3>2. CASE UNCHANGED <<sent, wire, trouble>>
      BY <1>0, <1>2, <3>2 DEF OnStatus, ClientType, Stream
    <3>. QED BY <1>2, <3>1, <3>2 DEF OnStatus
  <2>2. phase' \in Phases /\ snapshot' \subseteq Items /\ ready' \in BOOLEAN
    BY <1>0, <1>2 DEF OnStatus, ClientType, ReaderType, Phases
  <2>3. blockSize' \in 0..Huge /\ last' \in 0..sent'
    BY <1>0, <1>2, <2>1 DEF OnStatus, ReaderType, reader
  <2>4. ClientType' /\ ReaderType'
    BY <2>0, <2>1, <2>2, <2>3 DEF ClientType, ReaderType
  <2>. QED BY <1>0, <1>2, <2>1, <2>4, TypePartsNext DEF OnStatus, database, DbType, StateType, RegistryType, state, registry, schedule
<1>3. CASE ReadSeries \/ ReadCollectors
  <2>1. snapshot' \subseteq Items
    <3>1. \A p \in dbProviders : ProviderItem(p) \in Items
      BY <1>0, ItemsAre DEF DbType
    <3>2. \A c \in {d \in Collectors : dbSeries[d] # None} : SeriesItem(c, dbSeries[c]) \in Items
      BY <1>0, ItemsAre DEF DbType
    <3>3. \A c \in Collectors : CollectorItem(c, c \in dbActive) \in Items
      <4>1. \A c \in Collectors : (c \in dbActive) \in BOOLEAN
        OBVIOUS
      <4>. QED BY <4>1, ItemsAre
    <3>. QED BY <1>0, <1>3, <3>1, <3>2, <3>3 DEF ReadSeries, ReadCollectors, ClientType
  <2>2. ClientType' /\ ReaderType' /\ Stream'
    BY <1>0, <1>3, <2>1 DEF ReadSeries, ReadCollectors, ClientType, ReaderType, Stream, reader, socket, Phases
  <2>. QED BY <1>0, <1>3, <2>1, <2>2, TypePartsNext DEF ReadSeries, ReadCollectors, database, DbType, StateType, RegistryType, state, registry, schedule
<1>4. CASE SendSnapshot
  <2>1. Stream' /\ sent' \in Nat /\ 0..sent \subseteq 0..sent' /\ trouble' \subseteq Troubles
    BY <1>4, <1>a, SendType DEF SendSnapshot
  <2>2. ClientType' /\ ReaderType'
    BY <1>0, <1>4, <2>1 DEF SendSnapshot, ClientType, ReaderType, reader, Phases
  <2>. QED BY <1>0, <1>4, <2>1, <2>2, TypePartsNext DEF SendSnapshot, database, DbType, StateType, RegistryType, state, registry, schedule
<1>. QED BY <1>1, <1>2, <1>3, <1>4 DEF Client

\* What a message does to the reader when it is handled.
LEMMA CompleteType ==
  ASSUME TypeInv, Complete, UNCHANGED <<wire, sent>>,
         last' = last \/ (Recognized /\ last' = Head(Behind).n)
  PROVE  ReaderType' /\ Stream'
<1>1. sent \in Nat /\ last \in 0..sent
  BY TypeParts DEF ReaderType, ClientType
<1>2. last' \in 0..sent
  <2>1. CASE Recognized /\ last' = Head(Behind).n
    <3>1. Head(Behind).n \in 1..sent
      BY <2>1, HeadType DEF Complete
    <3>. QED BY <1>1, <2>1, <3>1
  <2>. QED BY <1>1, <2>1
<1>3. Stream'
  BY EmptyStream DEF Complete
<1>4. blockSize' \in 0..Huge /\ ready' \in BOOLEAN
  <2>1. blockSize' = 0 /\ ready' = FALSE
    BY DEF Complete
  <2>2. 0 \in 0..Huge
    BY DEF Huge
  <2>. QED BY <2>1, <2>2
<1>5. sent' = sent
  OBVIOUS
<1>. QED BY <1>2, <1>3, <1>4, <1>5 DEF ReaderType

LEMMA ReadType ==
  ASSUME TypeInv, ReadMessage
  PROVE  TypeInv'
<1>0. DbType /\ ClientType /\ Stream /\ ReaderType /\ StateType /\ RegistryType
      /\ work \subseteq Items /\ trouble \subseteq Troubles
  BY TypeParts
<1>1. CASE ReadPart
  <2>1. Stream' /\ blockSize' \in 0..Huge
    <3>1. CASE UNCHANGED <<blockSize, buffer>>
      BY <1>0, <1>1, <3>1 DEF ReadPart, Stream, ReaderType, client
    <3>2. CASE (buffer # <<>> \/ blockSize # 0) /\ blockSize' = Size /\ buffer' = Behind
      BY <1>0, <1>1, <3>2, BehindStretch DEF ReadPart, Stream, client
    <3>. QED BY <1>1, <3>1, <3>2 DEF ReadPart
  <2>2. ClientType' /\ ReaderType'
    BY <1>0, <1>1, <2>1 DEF ReadPart, ClientType, ReaderType, client
  <2>. QED BY <1>0, <1>1, <2>1, <2>2, TypePartsNext DEF ReadPart, database, DbType, StateType, RegistryType, state, registry, schedule
<1>2. CASE ReadDropped
  <2>1. ReaderType' /\ Stream'
    BY <1>2, CompleteType DEF ReadDropped, client
  <2>. QED BY <1>0, <1>2, <2>1, TypePartsNext DEF ReadDropped, client, database, DbType, ClientType, StateType, RegistryType, state, registry, schedule
<1>3. CASE ReadStatus
  <2>1. ReaderType' /\ Stream'
    BY <1>3, CompleteType DEF ReadStatus, Reads, client
  <2>2. answers' \in Seq({"unloaded", "loaded"})
    <3>1. \A x \in {"unloaded", "loaded"} : Append(answers, x) \in Seq({"unloaded", "loaded"})
      BY <1>0, AppendProperties DEF ClientType
    <3>. QED BY <1>3, <3>1 DEF ReadStatus
  <2>. QED BY <1>0, <1>3, <2>1, <2>2, TypePartsNext DEF ReadStatus, client, database, DbType, ClientType, StateType, RegistryType, state, registry, schedule
<1>4. CASE ReadUpdate
  <2>1. ReaderType' /\ Stream'
    BY <1>4, CompleteType DEF ReadUpdate, Reads, client
  <2>2. StateType' /\ trouble' \subseteq Troubles
    BY <1>0, <1>4 DEF ReadUpdate, StateType, Troubles
  <2>. QED BY <1>0, <1>4, <2>1, <2>2, TypePartsNext DEF ReadUpdate, client, database, DbType, ClientType, RegistryType, registry, schedule
<1>5. CASE ReadData
  <2>1. ReaderType' /\ Stream'
    BY <1>5, CompleteType DEF ReadData, Reads, client
  <2>2. work' \subseteq Items
    <3>1. Recognized /\ AtHand /\ Head(Behind).kind \in {"ADD", "REMOVE"} /\ work' = Head(Behind).content
      BY <1>5 DEF ReadData, Reads, Complete
    <3>2. Head(Behind).content \in Contents(Head(Behind).kind)
      BY <3>1, HeadType
    <3>. QED BY <3>1, <3>2 DEF Contents
  <2>. QED BY <1>0, <1>5, <2>1, <2>2, TypePartsNext DEF ReadData, client, database, DbType, ClientType, StateType, RegistryType, state, registry, schedule
<1>6. CASE ReadRequest
  <2>1. ReaderType' /\ Stream'
    BY <1>6, CompleteType DEF ReadRequest, Reads, client
  <2>. QED BY <1>0, <1>6, <2>1, TypePartsNext DEF ReadRequest, client, database, DbType, ClientType, StateType, RegistryType, state, registry, schedule
<1>7. CASE ReadTerminate
  <2>1. AtHand /\ Recognized /\ last' = Head(Behind).n /\ blockSize' = Size - 1 /\ sent' = sent /\ wire' = wire
        /\ buffer' = SubSeq(Behind, Size + 1, Len(Behind)) /\ ready' = FALSE
    BY <1>7 DEF ReadTerminate, Reads, client
  <2>2. /\ Stretch(Behind, sent) /\ Joined(Behind, wire) /\ Size \in 0..Huge /\ Size >= 1
        /\ Len(Behind) >= Size
    <3>1. buffer # <<>> \/ blockSize # 0
      BY <2>1 DEF AtHand
    <3>2. Behind # <<>> /\ Head(Behind).part = 1 /\ Len(Behind) >= Size
      BY <2>1 DEF AtHand, Recognized
    <3>. QED BY <3>1, <3>2, BehindStretch
  <2>3. Behind \in Seq(Unit) /\ Len(Behind) \in Nat
    BY <2>2 DEF Stretch
  <2>4. Stretch(buffer', sent)
    <3>1. Size + 1 \in 1..(Len(Behind) + 1)
      BY <2>2, <2>3
    <3>. QED BY <2>1, <2>2, <3>1, RestStretch
  <2>5. Joined(buffer', wire)
    <3>. SUFFICES ASSUME buffer' # <<>>, wire # <<>> PROVE Follows(buffer'[Len(buffer')], wire[1])
      BY DEF Joined
    <3>1. Len(buffer') = Len(Behind) - Size /\ \A k \in 1..(Len(Behind) - Size) : buffer'[k] = Behind[Size + k]
      BY <2>1, <2>2, <2>3
    <3>2. Len(buffer') \in 1..(Len(Behind) - Size)
      <4>1. buffer' \in Seq(Unit)
        BY <2>4 DEF Stretch
      <4>. QED BY <3>1, <4>1, EmptySeq
    <3>3. buffer'[Len(buffer')] = Behind[Len(Behind)] /\ Behind # <<>>
      BY <2>2, <2>3, <3>1, <3>2
    <3>. QED BY <2>2, <3>3 DEF Joined
  <2>6. last' \in 0..sent
    <3>1. Head(Behind).n \in 1..sent /\ sent \in Nat
      BY <1>0, <2>1, HeadType DEF ClientType
    <3>. QED BY <2>1, <3>1
  <2>7. Stream' /\ ReaderType'
    <3>1. Size - 1 \in 0..Huge
      BY <2>2 DEF Huge
    <3>. QED BY <1>0, <2>1, <2>4, <2>5, <2>6, <3>1 DEF Stream, ReaderType
  <2>. QED BY <1>0, <1>7, <2>7, TypePartsNext DEF ReadTerminate, client, database, DbType, ClientType, StateType, RegistryType, registry, schedule
<1>8. CASE ReadUnknown
  BY <1>8, FreshType DEF ReadUnknown
<1>. QED BY <1>1, <1>2, <1>3, <1>4, <1>5, <1>6, <1>7, <1>8 DEF ReadMessage

LEMMA HandleType ==
  ASSUME TypeInv, Handle
  PROVE  TypeInv'
<1>0. DbType /\ ClientType /\ Stream /\ ReaderType /\ StateType /\ RegistryType
      /\ work \subseteq Items /\ trouble \subseteq Troubles
  BY TypeParts
<1>. SUFFICES ASSUME RegistryType', work' \subseteq Items, trouble' \subseteq Troubles,
                     UNCHANGED <<database, client, socket, reader, state>>
              PROVE  TypeInv'
  <2>1. PICK w \in work : DoProvider(w) \/ DoSeries(w) \/ DoCollector(w) \/ DropCollector(w) \/ DropSeries(w)
    BY DEF Handle
  <2>2. w \in Items
    BY <1>0, <2>1
  <2>3. CASE DoProvider(w)
    <3>1. w.id \in Providers
      BY <2>2, <2>3 DEF DoProvider, Takes, Items
    <3>. QED BY <1>0, <2>3, <3>1 DEF DoProvider, Done, RegistryType
  <2>4. CASE DoSeries(w)
    <3>1. w.of \in Providers /\ w.id \in Collectors
      BY <2>2, <2>4 DEF DoSeries, Takes, Items
    <3>. QED BY <1>0, <2>4, <3>1 DEF DoSeries, Done, RegistryType, Troubles
  <2>5. CASE DoCollector(w)
    <3>1. w.id \in Collectors /\ w.active \in BOOLEAN
      BY <2>2, <2>5 DEF DoCollector, Takes, Items
    <3>2. collectors' \in [Collectors -> {"none", "on", "off"}]
      BY <1>0, <2>5, <3>1 DEF DoCollector, RegistryType
    <3>3. timers' \subseteq Collectors /\ trouble' \subseteq Troubles /\ blocked' \in BOOLEAN
      BY <1>0, <2>5, <3>1 DEF DoCollector, Schedules, RegistryType, Troubles
    <3>. QED BY <1>0, <2>5, <3>2, <3>3 DEF DoCollector, RegistryType
  <2>6. CASE DropCollector(w)
    BY <1>0, <2>6 DEF DropCollector, Done, Throws, RegistryType, Troubles
  <2>7. CASE DropSeries(w)
    BY <1>0, <2>7 DEF DropSeries, Done, Throws, RegistryType, Troubles, schedule
  <2>. QED BY <2>1, <2>3, <2>4, <2>5, <2>6, <2>7 DEF DoProvider, DoSeries, DoCollector, DropCollector, DropSeries
<1>. QED BY <1>0, TypePartsNext DEF database, client, socket, reader, state, DbType, ClientType, Stream, ReaderType, StateType

LEMMA TypeNext == TypeInv /\ [Next]_vars => TypeInv'
<1>. SUFFICES ASSUME TypeInv, [Next]_vars PROVE TypeInv'
  OBVIOUS
<1>0. DbType /\ ClientType /\ Stream /\ ReaderType /\ StateType /\ RegistryType
      /\ work \subseteq Items /\ trouble \subseteq Troubles
  BY TypeParts
<1>1. CASE User
  BY <1>1, UserType
<1>2. CASE Connect \/ Client
  BY <1>2, ClientStepType
<1>3. CASE Arrive
  <2>1. Stream'
    BY <1>3, ArriveStream
  <2>. QED BY <1>0, <1>3, <2>1, TypePartsNext DEF Arrive, database, client, reader, state, registry, schedule, DbType, ClientType, ReaderType, StateType, RegistryType
<1>4. CASE ReadMessage
  BY <1>4, ReadType
<1>5. CASE Handle
  BY <1>5, HandleType
<1>6. CASE Start
  BY <1>0, <1>6, TypePartsNext DEF Start, database, client, socket, reader, registry, schedule, DbType, ClientType, Stream, ReaderType, StateType, RegistryType
<1>7. CASE Crash \/ StopReturns
  BY <1>7, FreshType DEF Crash, StopReturns
<1>8. CASE Cut
  <2>1. ClientType'
    BY <1>0, <1>8 DEF Cut, ClientType, Phases
  <2>2. Stream'
    BY <1>8, NoStretch DEF Cut, Stream, Joined
  <2>3. trouble' \subseteq Troubles
    BY <1>0, <1>8 DEF Cut, Troubles
  <2>. QED BY <1>0, <1>8, <2>1, <2>2, <2>3, TypePartsNext DEF Cut, database, reader, state, registry, schedule, DbType, ReaderType, StateType, RegistryType
<1>9. CASE UNCHANGED vars
  BY <1>0, <1>9, TypePartsNext DEF vars, database, client, socket, reader, state, registry, schedule, DbType, ClientType, Stream, ReaderType, StateType, RegistryType
<1>. QED BY <1>1, <1>2, <1>3, <1>4, <1>5, <1>6, <1>7, <1>8, <1>9 DEF Next

\* The database, the client, the socket and the registries keep their types; what is in the
\* socket is a stretch of the messages that were sent, however they were cut and discarded.
THEOREM MessagesTypeCorrect == Spec => []TypeOK
<1>1. TypeInv => TypeOK
  BY DEF TypeInv
<1>. QED BY <1>1, TypeInit, TypeNext, PTL DEF Spec
-----------------------------------------------------------------------------
(* The message on its way *)

Silent == wire = <<>> /\ buffer = <<>>

FirstOf(w, b) == IF b # <<>> THEN b[1] ELSE w[1]

\* What is on its way to the service, and its signal.
Coming == IF Silent THEN {} ELSE FirstOf(wire, buffer).content
ComingKind == IF Silent THEN "none" ELSE FirstOf(wire, buffer).kind

Piece(m, kd, ct, k) == [n |-> m, kind |-> kd, content |-> ct, part |-> k]

Off(bs) == IF bs = 0 THEN 0 ELSE 1

\* Socket w, buffer b and blockSize_ bs hold message m and nothing else, or what is left of
\* it when its size was read.
Frames(w, b, bs, m, kd, ct) ==
  /\ w \in Seq(Unit) /\ b \in Seq(Unit)
  /\ kd \in {"STATUS", "UPDATE", "ADD", "REMOVE"} /\ (kd \notin {"ADD", "REMOVE"} => ct = {})
  /\ bs = 0 \/ bs = 1 + JsonUnits(kd)
  /\ Len(b) + Len(w) = 2 + JsonUnits(kd) - Off(bs)
  /\ \A k \in 1..Len(b) : b[k] = Piece(m, kd, ct, Off(bs) + k - 1)
  /\ \A k \in 1..Len(w) : w[k] = Piece(m, kd, ct, Off(bs) + Len(b) + k - 1)

\* As long as the messages are sent one at a time there is one on its way or none.
Framed ==
  Orderly =>
    IF Silent THEN blockSize = 0 /\ last = sent
    ELSE Frames(wire, buffer, blockSize, sent, ComingKind, Coming)

LEMMA FramesFirst ==
  ASSUME NEW w, NEW b, NEW bs, NEW m, NEW kd, NEW ct, Frames(w, b, bs, m, kd, ct)
  PROVE  /\ w # <<>> \/ b # <<>>
         /\ FirstOf(w, b).kind = kd /\ FirstOf(w, b).content = ct
         /\ JsonUnits(kd) \in 1..2 /\ Off(bs) \in 0..1
<1>1. JsonUnits(kd) \in 1..2 /\ Off(bs) \in 0..1 /\ Len(w) \in Nat /\ Len(b) \in Nat
  BY DEF Frames, JsonUnits, Off
<1>2. w \in Seq(Unit) /\ b \in Seq(Unit) /\ Len(b) + Len(w) >= 1
  BY <1>1 DEF Frames
<1>3. CASE b # <<>>
  <2>1. 1 \in 1..Len(b)
    BY <1>2, <1>3
  <2>2. b[1] = Piece(m, kd, ct, Off(bs) + 1 - 1)
    BY <2>1 DEF Frames
  <2>. QED BY <1>1, <1>3, <2>2 DEF FirstOf, Piece
<1>4. CASE b = <<>>
  <2>1. 1 \in 1..Len(w) /\ w # <<>>
    BY <1>1, <1>2, <1>4
  <2>2. w[1] = Piece(m, kd, ct, Off(bs) + Len(b) + 1 - 1)
    BY <2>1 DEF Frames
  <2>. QED BY <1>1, <1>4, <2>1, <2>2 DEF FirstOf, Piece
<1>. QED BY <1>3, <1>4

\* A framed message is what is on its way.
LEMMA FramesComing ==
  ASSUME NEW bs, NEW m, NEW kd, NEW ct, Frames(wire', buffer', bs, m, kd, ct)
  PROVE  ~Silent' /\ ComingKind' = kd /\ Coming' = ct
<1>1. PICK w : w = wire'
  OBVIOUS
<1>2. PICK b : b = buffer'
  OBVIOUS
<1>3. (w # <<>> \/ b # <<>>) /\ FirstOf(w, b).kind = kd /\ FirstOf(w, b).content = ct
  BY <1>1, <1>2, FramesFirst
<1>. QED BY <1>1, <1>2, <1>3 DEF Silent, Coming, ComingKind, FirstOf

LEMMA SentFrames ==
  ASSUME NEW m \in Nat \ {0}, NEW kd \in {"STATUS", "UPDATE", "ADD", "REMOVE"}, NEW ct \in Contents(kd)
  PROVE  Frames(Units(m, kd, ct), <<>>, 0, m, kd, ct)
<1>1. kd \in Kinds
  BY DEF Kinds
<1>2. JsonUnits(kd) \in 1..2 /\ Len(Units(m, kd, ct)) = 2 + JsonUnits(kd)
      /\ \A k \in 1..(2 + JsonUnits(kd)) : Units(m, kd, ct)[k] = Piece(m, kd, ct, k - 1)
  BY <1>1, UnitsAre DEF Piece
<1>3. Units(m, kd, ct) \in Seq(Unit) /\ <<>> \in Seq(Unit) /\ Len(<<>>) = 0
  <2>1. Stretch(Units(m, kd, ct), m)
    BY <1>1, UnitsStretch
  <2>. QED BY <2>1 DEF Stretch
<1>4. kd \notin {"ADD", "REMOVE"} => ct = {}
  BY DEF Contents
<1>5. Off(0) = 0
  BY DEF Off
<1>6. \A k \in 1..Len(Units(m, kd, ct)) : Units(m, kd, ct)[k] = Piece(m, kd, ct, Off(0) + Len(<<>>) + k - 1)
  <2>. SUFFICES ASSUME NEW k \in 1..(2 + JsonUnits(kd))
                PROVE  Units(m, kd, ct)[k] = Piece(m, kd, ct, Off(0) + Len(<<>>) + k - 1)
    BY <1>2
  <2>1. Off(0) + Len(<<>>) + k - 1 = k - 1
    BY <1>3, <1>5
  <2>. QED BY <1>2, <2>1
<1>. QED BY <1>2, <1>3, <1>4, <1>5, <1>6 DEF Frames

LEMMA ArriveFrames ==
  ASSUME NEW w, NEW b, NEW bs, NEW m, NEW kd, NEW ct, Frames(w, b, bs, m, kd, ct), w # <<>>
  PROVE  Frames(Tail(w), Append(b, Head(w)), bs, m, kd, ct)
<1>0. w \in Seq(Unit) /\ b \in Seq(Unit)
  BY DEF Frames
<1>1. JsonUnits(kd) \in 1..2 /\ Off(bs) \in 0..1 /\ Len(w) \in Nat /\ Len(b) \in Nat
  BY <1>0, FramesFirst
<1>2. Head(w) = w[1] /\ w[1] \in Unit /\ Len(w) >= 1
  BY <1>0
<1>3. Tail(w) \in Seq(Unit) /\ Len(Tail(w)) = Len(w) - 1 /\ \A k \in 1..(Len(w) - 1) : Tail(w)[k] = w[k + 1]
  BY <1>0, <1>2, HeadTailProperties
<1>4. /\ Append(b, Head(w)) \in Seq(Unit) /\ Len(Append(b, Head(w))) = Len(b) + 1
      /\ \A k \in 1..Len(b) : Append(b, Head(w))[k] = b[k]
      /\ Append(b, Head(w))[Len(b) + 1] = w[1]
  BY <1>0, <1>2, AppendProperties
<1>5. \A k \in 1..Len(Append(b, Head(w))) : Append(b, Head(w))[k] = Piece(m, kd, ct, Off(bs) + k - 1)
  <2>. SUFFICES ASSUME NEW k \in 1..(Len(b) + 1) PROVE Append(b, Head(w))[k] = Piece(m, kd, ct, Off(bs) + k - 1)
    BY <1>4
  <2>1. CASE k \in 1..Len(b)
    BY <1>4, <2>1 DEF Frames
  <2>2. CASE k = Len(b) + 1
    <3>1. w[1] = Piece(m, kd, ct, Off(bs) + Len(b) + 1 - 1)
      <4>1. 1 \in 1..Len(w)
        BY <1>1, <1>2
      <4>. QED BY <4>1 DEF Frames
    <3>2. Off(bs) + Len(b) + 1 - 1 = Off(bs) + k - 1
      BY <1>1, <2>2
    <3>. QED BY <1>4, <2>2, <3>1, <3>2
  <2>. QED BY <1>1, <2>1, <2>2
<1>6. \A k \in 1..Len(Tail(w)) : Tail(w)[k] = Piece(m, kd, ct, Off(bs) + Len(Append(b, Head(w))) + k - 1)
  <2>. SUFFICES ASSUME NEW k \in 1..(Len(w) - 1)
                PROVE  Tail(w)[k] = Piece(m, kd, ct, Off(bs) + (Len(b) + 1) + k - 1)
    BY <1>3, <1>4
  <2>1. k + 1 \in 1..Len(w)
    BY <1>1
  <2>2. w[k + 1] = Piece(m, kd, ct, Off(bs) + Len(b) + (k + 1) - 1)
    BY <2>1 DEF Frames
  <2>3. Off(bs) + Len(b) + (k + 1) - 1 = Off(bs) + (Len(b) + 1) + k - 1
    BY <1>1
  <2>. QED BY <1>3, <2>2, <2>3
<1>7. Len(Append(b, Head(w))) + Len(Tail(w)) = 2 + JsonUnits(kd) - Off(bs)
  BY <1>1, <1>3, <1>4 DEF Frames
<1>. QED BY <1>3, <1>4, <1>5, <1>6, <1>7 DEF Frames

\* The size is read.
LEMMA SizeFrames ==
  ASSUME NEW w, NEW b, NEW m, NEW kd, NEW ct, Frames(w, b, 0, m, kd, ct), b # <<>>
  PROVE  AsSize(Head(b)) = 1 + JsonUnits(kd) /\ Frames(w, Tail(b), 1 + JsonUnits(kd), m, kd, ct)
<1>0. w \in Seq(Unit) /\ b \in Seq(Unit)
  BY DEF Frames
<1>1. JsonUnits(kd) \in 1..2 /\ Len(w) \in Nat /\ Len(b) \in Nat /\ Off(0) = 0 /\ Off(1 + JsonUnits(kd)) = 1
  BY <1>0, FramesFirst DEF Off
<1>2. Head(b) = b[1] /\ Len(b) >= 1 /\ 1 \in 1..Len(b)
  BY <1>0
<1>3. Tail(b) \in Seq(Unit) /\ Len(Tail(b)) = Len(b) - 1 /\ \A k \in 1..(Len(b) - 1) : Tail(b)[k] = b[k + 1]
  BY <1>0, <1>2, HeadTailProperties
<1>4. AsSize(Head(b)) = 1 + JsonUnits(kd)
  <2>1. b[1] = Piece(m, kd, ct, 0 + 1 - 1)
    BY <1>1, <1>2 DEF Frames
  <2>2. b[1].part = 0 /\ b[1].kind = kd
    BY <2>1 DEF Piece
  <2>. QED BY <1>2, <2>2 DEF AsSize
<1>5. \A k \in 1..Len(Tail(b)) : Tail(b)[k] = Piece(m, kd, ct, Off(1 + JsonUnits(kd)) + k - 1)
  <2>. SUFFICES ASSUME NEW k \in 1..(Len(b) - 1) PROVE Tail(b)[k] = Piece(m, kd, ct, 1 + k - 1)
    BY <1>1, <1>3
  <2>1. k + 1 \in 1..Len(b)
    BY <1>1
  <2>2. b[k + 1] = Piece(m, kd, ct, 0 + (k + 1) - 1)
    BY <1>1, <2>1 DEF Frames
  <2>3. 0 + (k + 1) - 1 = 1 + k - 1
    OBVIOUS
  <2>. QED BY <1>3, <2>2, <2>3
<1>6. \A k \in 1..Len(w) : w[k] = Piece(m, kd, ct, Off(1 + JsonUnits(kd)) + Len(Tail(b)) + k - 1)
  <2>. SUFFICES ASSUME NEW k \in 1..Len(w) PROVE w[k] = Piece(m, kd, ct, 1 + (Len(b) - 1) + k - 1)
    BY <1>1, <1>3
  <2>1. w[k] = Piece(m, kd, ct, 0 + Len(b) + k - 1)
    BY <1>1 DEF Frames
  <2>2. 0 + Len(b) + k - 1 = 1 + (Len(b) - 1) + k - 1
    BY <1>1
  <2>. QED BY <2>1, <2>2
<1>7. Len(Tail(b)) + Len(w) = 2 + JsonUnits(kd) - 1
  BY <1>1, <1>3 DEF Frames
<1>. QED BY <1>1, <1>3, <1>4, <1>5, <1>6, <1>7 DEF Frames

\* A message that is complete is recognized, and nothing is behind it.
LEMMA AtHandFramed ==
  ASSUME TypeInv, Framed, Orderly, AtHand
  PROVE  /\ wire = <<>> /\ ~Silent /\ Recognized
         /\ Head(Behind).n = sent /\ Head(Behind).kind = ComingKind /\ Head(Behind).content = Coming
         /\ ComingKind \in {"STATUS", "UPDATE", "ADD", "REMOVE"}
<1>. DEFINE J == JsonUnits(ComingKind)
<1>1. ~Silent /\ Frames(wire, buffer, blockSize, sent, ComingKind, Coming)
  BY DEF Framed, Silent, AtHand
<1>2. J \in 1..2 /\ wire \in Seq(Unit) /\ ComingKind \in {"STATUS", "UPDATE", "ADD", "REMOVE"}
  <2>1. J \in 1..2
    BY <1>1, FramesFirst
  <2>. QED BY <1>1, <2>1 DEF Frames
<1>3. Size = 1 + J /\ Frames(wire, Behind, 1 + J, sent, ComingKind, Coming)
  <2>1. CASE blockSize = 0
    <3>1. buffer # <<>>
      BY <2>1 DEF AtHand
    <3>. QED BY <1>1, <2>1, <3>1, SizeFrames DEF Size, Behind
  <2>2. CASE blockSize # 0
    BY <1>1, <2>2 DEF Frames, Size, Behind
  <2>. QED BY <2>1, <2>2
<1>. HIDE DEF J
<1>4. Off(1 + J) = 1
  BY <1>2 DEF Off
<1>5. /\ Behind \in Seq(Unit) /\ Len(Behind) + Len(wire) = 1 + J
      /\ \A k \in 1..Len(Behind) : Behind[k] = Piece(sent, ComingKind, Coming, 1 + k - 1)
  <2>1. 2 + J - 1 = 1 + J
    BY <1>2
  <2>2. /\ Behind \in Seq(Unit) /\ Len(Behind) + Len(wire) = 2 + J - Off(1 + J)
        /\ \A k \in 1..Len(Behind) : Behind[k] = Piece(sent, ComingKind, Coming, Off(1 + J) + k - 1)
    BY <1>3 DEF Frames, J
  <2>. QED BY <1>4, <2>1, <2>2
<1>6. Len(Behind) >= 1 + J /\ Len(Behind) \in Nat /\ Len(wire) \in Nat
  BY <1>2, <1>3, <1>5 DEF AtHand
<1>7. Len(Behind) = 1 + J /\ wire = <<>>
  BY <1>2, <1>5, <1>6, EmptySeq
<1>8. Behind # <<>> /\ Head(Behind) = Behind[1] /\ Behind[1] = Piece(sent, ComingKind, Coming, 1)
  <2>1. 1 \in 1..Len(Behind)
    BY <1>2, <1>7
  <2>2. 1 + 1 - 1 = 1
    OBVIOUS
  <2>. QED BY <1>2, <1>5, <1>7, <2>1, <2>2
<1>9. Recognized
  <2>1. Text = SubSeq(Behind, 2, 1 + J)
    BY <1>2, <1>3 DEF Text
  <2>2. Len(Text) = J /\ Text \in Seq(Unit) /\ \A k \in 1..J : Text[k] = Behind[k + 1]
    <3>1. \A k \in 1..J : 2 + k - 1 = k + 1
      BY <1>2
    <3>. QED BY <1>2, <1>5, <1>7, <2>1, <3>1, SubSeqProperties
  <2>3. \A k \in DOMAIN Text : Text[k].n = Head(Behind).n /\ Text[k].part = k + 1
    <3>. SUFFICES ASSUME NEW k \in 1..J PROVE Text[k].n = Head(Behind).n /\ Text[k].part = k + 1
      BY <2>2
    <3>1. k + 1 \in 1..Len(Behind) /\ 1 + (k + 1) - 1 = k + 1
      BY <1>2, <1>7
    <3>2. Text[k] = Piece(sent, ComingKind, Coming, k + 1)
      BY <1>5, <2>2, <3>1
    <3>. QED BY <1>8, <3>2 DEF Piece
  <2>. QED BY <1>8, <2>2, <2>3 DEF Recognized, Piece, J
<1>. QED BY <1>1, <1>2, <1>7, <1>8, <1>9 DEF Piece

LEMMA QuietComing ==
  ASSUME UNCHANGED <<wire, buffer>>
  PROVE  Coming' = Coming /\ ComingKind' = ComingKind /\ Silent' = Silent
BY DEF Coming, ComingKind, Silent, FirstOf

LEMMA QuietFramed ==
  ASSUME Framed, UNCHANGED <<wire, buffer, blockSize, last, sent>>, Orderly' => Orderly
  PROVE  Framed'
BY DEF Framed, Coming, ComingKind, Silent, FirstOf

\* A message that is sent when the one before was read is the only one.
LEMMA SentComing ==
  ASSUME TypeInv, Framed, Orderly', Orderly, "burst" \notin Burst,
         NEW kind \in {"STATUS", "UPDATE", "ADD", "REMOVE"}, NEW content \in Contents(kind),
         sent' = sent + 1, wire' = wire \o Units(sent + 1, kind, content),
         UNCHANGED <<buffer, blockSize>>
  PROVE  /\ Silent /\ blockSize = 0 /\ last = sent
         /\ Framed' /\ ~Silent' /\ Coming' = content /\ ComingKind' = kind
<1>1. Silent /\ blockSize = 0 /\ last = sent
  BY DEF Burst, Outstanding, Silent, Framed
<1>2. sent + 1 \in Nat \ {0}
  BY TypeParts DEF ClientType
<1>3. Units(sent + 1, kind, content) \in Seq(Unit)
  <2>1. kind \in Kinds
    BY DEF Kinds
  <2>2. Stretch(Units(sent + 1, kind, content), sent + 1)
    BY <1>2, <2>1, UnitsStretch
  <2>. QED BY <2>2 DEF Stretch
<1>4. wire' = Units(sent + 1, kind, content) /\ buffer' = <<>> /\ blockSize' = 0
  BY <1>1, <1>3, ConcatEmptySeq DEF Silent
<1>5. Frames(wire', buffer', blockSize', sent', kind, content)
  BY <1>2, <1>4, SentFrames
<1>6. ~Silent' /\ ComingKind' = kind /\ Coming' = content
  BY <1>5, FramesComing
<1>7. Framed'
  BY <1>5, <1>6 DEF Framed
<1>. QED BY <1>1, <1>6, <1>7

LEMMA ArriveComing ==
  ASSUME TypeInv, Framed, Orderly, Arrive
  PROVE  Framed' /\ Coming' = Coming /\ ComingKind' = ComingKind /\ ~Silent /\ ~Silent'
<1>1. ~Silent /\ wire # <<>>
  BY DEF Arrive, Silent
<1>2. Frames(wire, buffer, blockSize, sent, ComingKind, Coming)
  BY <1>1 DEF Framed
<1>3. Frames(wire', buffer', blockSize', sent', ComingKind, Coming)
  <2>1. wire' = Tail(wire) /\ buffer' = Append(buffer, Head(wire)) /\ blockSize' = blockSize /\ sent' = sent
    BY DEF Arrive, reader, client
  <2>. QED BY <1>1, <1>2, <2>1, ArriveFrames
<1>4. ~Silent' /\ ComingKind' = ComingKind /\ Coming' = Coming
  BY <1>3, FramesComing
<1>. QED BY <1>1, <1>3, <1>4 DEF Framed

LEMMA PartComing ==
  ASSUME TypeInv, Framed, Orderly, ReadPart
  PROVE  Framed' /\ Coming' = Coming /\ ComingKind' = ComingKind /\ Silent' = Silent
<1>1. wire' = wire /\ sent' = sent /\ last' = last /\ trouble' = trouble
  BY DEF ReadPart, client
<1>2. CASE UNCHANGED <<blockSize, buffer>>
  <2>1. Orderly' => Orderly
    BY <1>1 DEF Orderly
  <2>. QED BY <1>1, <1>2, <2>1, QuietFramed, QuietComing
<1>3. CASE (buffer # <<>> \/ blockSize # 0) /\ blockSize' = Size /\ buffer' = Behind
  <2>1. CASE blockSize # 0
    <3>1. UNCHANGED <<blockSize, buffer>>
      BY <1>3, <2>1 DEF Size, Behind
    <3>. QED BY <1>2, <3>1
  <2>2. CASE blockSize = 0
    <3>1. buffer # <<>> /\ blockSize' = AsSize(Head(buffer)) /\ buffer' = Tail(buffer) /\ ~Silent
      BY <1>3, <2>2 DEF Size, Behind, Silent
    <3>2. Frames(wire, buffer, 0, sent, ComingKind, Coming)
      BY <2>2, <3>1 DEF Framed
    <3>3. Frames(wire', buffer', blockSize', sent', ComingKind, Coming)
      BY <1>1, <3>1, <3>2, SizeFrames
    <3>4. ~Silent' /\ ComingKind' = ComingKind /\ Coming' = Coming
      BY <3>3, FramesComing
    <3>5. Framed'
      BY <3>3, <3>4 DEF Framed
    <3>6. Silent' = Silent
      BY <3>1, <3>4 DEF Silent
    <3>. QED BY <3>4, <3>5, <3>6
  <2>. QED BY <2>1, <2>2
<1>. QED BY <1>2, <1>3 DEF ReadPart

\* A message that is complete is read, and none is on its way then.
LEMMA CompleteComing ==
  ASSUME TypeInv, Framed, Orderly, Complete, UNCHANGED <<wire, sent>>,
         last' = Head(Behind).n \/ ~Recognized
  PROVE  Framed' /\ Silent' /\ Coming' = {} /\ ComingKind' = "none"
<1>1. wire = <<>> /\ Recognized /\ Head(Behind).n = sent
  BY AtHandFramed DEF Complete
<1>2. wire' = <<>> /\ buffer' = <<>> /\ blockSize' = 0 /\ last' = sent'
  BY <1>1 DEF Complete
<1>. QED BY <1>2 DEF Framed, Silent, Coming, ComingKind

LEMMA FramedInit == Init => Framed
BY DEF Init, Framed, Silent

\* Troubles are not forgotten as long as the service lives.
LEMMA TroubleStays ==
  ASSUME [Next]_vars, ~Fresh
  PROVE  trouble \subseteq trouble'
<1>1. CASE User
  BY <1>1 DEF User, AddProvider, RemoveProvider, RemoveCollector, SaveCollector, Edit, Request, Send, SendBoth
<1>2. CASE Connect \/ Client
  BY <1>2 DEF Connect, Client, OnStatus, ReadSeries, ReadCollectors, SendSnapshot, Send
<1>3. CASE Arrive \/ ReadMessage
  BY <1>3 DEF Arrive, ReadMessage, ReadPart, ReadDropped, ReadStatus, ReadUpdate, ReadData, ReadRequest, ReadTerminate, ReadUnknown
<1>4. CASE Handle
  <2>1. PICK w \in work : DoProvider(w) \/ DoSeries(w) \/ DoCollector(w) \/ DropCollector(w) \/ DropSeries(w)
    BY <1>4 DEF Handle
  <2>. QED BY <2>1 DEF DoProvider, DoSeries, DoCollector, DropCollector, DropSeries, Schedules, Done, Throws
<1>5. CASE Start \/ Crash \/ StopReturns \/ Cut \/ UNCHANGED vars
  BY <1>5 DEF Start, Crash, StopReturns, Cut, vars
<1>. QED BY <1>1, <1>2, <1>3, <1>4, <1>5 DEF Next

LEMMA OrderlyBefore ==
  ASSUME [Next]_vars, ~Fresh, Orderly'
  PROVE  Orderly
BY TroubleStays DEF Orderly

\* An edit of the user: sent, or made without a connection.
LEMMA EditComing ==
  ASSUME TypeInv, Framed, Orderly', Orderly, NEW kind \in {"ADD", "REMOVE"}, NEW content \in SUBSET Items, Edit(kind, content)
  PROVE  /\ Framed'
         /\ \/ phase # "closed" /\ Silent /\ ~Silent' /\ Coming' = content /\ ComingKind' = kind
            \/ phase = "closed" /\ Coming' = Coming /\ ComingKind' = ComingKind /\ Silent' = Silent
<1>1. CASE phase # "closed"
  <2>1. /\ sent' = sent + 1 /\ wire' = wire \o Units(sent + 1, kind, content)
        /\ Burst \subseteq trouble' /\ UNCHANGED <<buffer, blockSize>>
    BY <1>1 DEF Edit, reader
  <2>2. "burst" \notin Burst /\ content \in Contents(kind) /\ kind \in {"STATUS", "UPDATE", "ADD", "REMOVE"}
    BY <2>1 DEF Orderly, Contents
  <2>. QED BY <1>1, <2>1, <2>2, SentComing
<1>2. CASE phase = "closed"
  BY <1>2, QuietFramed, QuietComing DEF Edit, reader
<1>. QED BY <1>1, <1>2

LEMMA ClientComing ==
  ASSUME TypeInv, Framed, Orderly', Orderly, UNCHANGED <<buffer, blockSize>>,
         NEW kind \in {"STATUS", "UPDATE", "ADD"}, NEW content \in Contents(kind), Send(kind, content)
  PROVE  Framed' /\ Silent /\ ~Silent' /\ Coming' = content /\ ComingKind' = kind
<1>1. sent' = sent + 1 /\ wire' = wire \o Units(sent + 1, kind, content) /\ Burst \subseteq trouble'
  BY DEF Send
<1>2. "burst" \notin Burst
  BY <1>1 DEF Orderly
<1>. QED BY <1>1, <1>2, SentComing

LEMMA SendBothDisorderly ==
  ASSUME NEW kind1, NEW content, NEW kind2, SendBoth(kind1, content, kind2)
  PROVE  ~Orderly'
BY DEF SendBoth, Orderly

LEMMA FramedNext == TypeInv /\ Framed /\ [Next]_vars => Framed'
<1>. SUFFICES ASSUME TypeInv, Framed, [Next]_vars, Orderly' PROVE Framed'
  BY DEF Framed
<1>0. CASE Fresh
  BY <1>0 DEF Fresh, Framed, Silent
<1>. SUFFICES ASSUME ~Fresh PROVE Framed'
  BY <1>0
<1>a. Orderly
  BY OrderlyBefore
<1>b. snapshot \in Contents("ADD") /\ {} \in Contents("STATUS") /\ {} \in Contents("UPDATE")
  BY TypeParts DEF ClientType, Contents
<1>1. ASSUME NEW kind \in {"ADD", "REMOVE"}, NEW content \in SUBSET Items, Edit(kind, content) PROVE Framed'
  BY <1>1, <1>a, EditComing
<1>2. CASE User
  <2>1. ASSUME NEW p \in Providers, AddProvider(p) PROVE Framed'
    BY <2>1, <1>1, ItemsAre DEF AddProvider
  <2>2. ASSUME NEW p \in Providers, RemoveProvider(p) PROVE Framed'
    BY <2>2, <1>1 DEF RemoveProvider
  <2>3. ASSUME NEW c \in Collectors, RemoveCollector(c) PROVE Framed'
    BY <2>3, <1>1, ItemsAre DEF RemoveCollector
  <2>4. ASSUME NEW c \in Collectors, NEW p \in Providers, NEW on \in BOOLEAN, SaveCollector(c, p, on) PROVE Framed'
    BY <2>4, <1>1, ItemsAre DEF SaveCollector
  <2>5. ASSUME NEW what \in Requests, Request(what) PROVE Framed'
    <3>1. CASE Send("STATUS", {})
      BY <2>5, <3>1, <1>a, <1>b, ClientComing DEF Request, reader
    <3>. QED BY <2>5, <3>1, SendBothDisorderly DEF Request
  <2>. QED BY <1>2, <2>1, <2>2, <2>3, <2>4, <2>5 DEF User
<1>3. CASE Connect
  BY <1>3, <1>a, <1>b, ClientComing DEF Connect, reader
<1>4. CASE OnStatus
  <2>1. CASE Send("UPDATE", {})
    BY <1>4, <2>1, <1>a, <1>b, ClientComing DEF OnStatus, reader
  <2>2. CASE UNCHANGED <<sent, wire, trouble>>
    BY <1>4, <2>2, <1>a, QuietFramed DEF OnStatus, reader
  <2>. QED BY <1>4, <2>1, <2>2 DEF OnStatus
<1>5. CASE ReadSeries \/ ReadCollectors
  BY <1>5, <1>a, QuietFramed DEF ReadSeries, ReadCollectors, socket, reader
<1>6. CASE SendSnapshot
  BY <1>6, <1>a, <1>b, ClientComing DEF SendSnapshot, reader
<1>7. CASE Arrive
  BY <1>7, <1>a, ArriveComing
<1>8. CASE ReadMessage
  <2>1. CASE ReadPart
    BY <2>1, <1>a, PartComing
  <2>2. CASE ReadDropped \/ ReadStatus \/ ReadUpdate \/ ReadData \/ ReadRequest
    <3>1. Complete /\ UNCHANGED <<wire, sent>> /\ (last' = Head(Behind).n \/ ~Recognized)
      BY <2>2 DEF ReadDropped, ReadStatus, ReadUpdate, ReadData, ReadRequest, Reads, client
    <3>. QED BY <3>1, <1>a, CompleteComing
  <2>3. CASE ReadTerminate
    BY <2>3, <1>a, AtHandFramed DEF ReadTerminate, Reads
  <2>4. CASE ReadUnknown
    BY <2>4 DEF ReadUnknown
  <2>. QED BY <1>8, <2>1, <2>2, <2>3, <2>4 DEF ReadMessage
<1>9. CASE Handle
  <2>1. UNCHANGED <<socket, reader, client>>
    BY <1>9 DEF Handle, DoProvider, DoSeries, DoCollector, DropCollector, DropSeries
  <2>. QED BY <2>1, <1>a, QuietFramed DEF socket, reader, client
<1>10. CASE Start \/ UNCHANGED vars
  BY <1>10, <1>a, QuietFramed DEF Start, vars, socket, reader, client
<1>11. CASE Crash \/ StopReturns
  BY <1>11 DEF Crash, StopReturns
<1>12. CASE Cut
  <2>1. ~Outstanding
    BY <1>12 DEF Cut, Orderly
  <2>2. blockSize = 0 /\ last = sent
    BY <2>1, <1>a DEF Outstanding, Framed, Silent
  <2>. QED BY <1>12, <2>2 DEF Cut, Framed, Silent, reader
<1>. QED BY <1>2, <1>3, <1>4, <1>5, <1>6, <1>7, <1>8, <1>9, <1>10, <1>11, <1>12 DEF Next, Client

LEMMA FramedReads == TypeInv /\ Framed => EachIsRead
<1>. SUFFICES ASSUME TypeInv, Framed PROVE EachIsRead
  OBVIOUS
<1>1. TypeOK
  BY DEF TypeInv
<1>2. ASSUME Orderly, ~Outstanding PROVE last = sent
  BY <1>2 DEF Framed, Outstanding, Silent
<1>3. ASSUME Orderly, blockSize # 0
      PROVE  /\ buffer \o wire # <<>>
             /\ Head(buffer \o wire).part = 1
             /\ blockSize = Len(buffer \o wire)
  <2>1. Frames(wire, buffer, blockSize, sent, ComingKind, Coming)
    BY <1>3 DEF Framed
  <2>2. /\ wire \in Seq(Unit) /\ buffer \in Seq(Unit)
        /\ blockSize = 1 + JsonUnits(ComingKind) /\ Off(blockSize) = 1
        /\ Len(buffer) + Len(wire) = 2 + JsonUnits(ComingKind) - Off(blockSize)
    BY <1>3, <2>1 DEF Frames, Off
  <2>3. JsonUnits(ComingKind) \in 1..2
    BY <2>1, FramesFirst
  <2>4. /\ buffer \o wire \in Seq(Unit) /\ Len(buffer \o wire) = Len(buffer) + Len(wire)
        /\ \A k \in 1..(Len(buffer) + Len(wire)) :
             (buffer \o wire)[k] = IF k <= Len(buffer) THEN buffer[k] ELSE wire[k - Len(buffer)]
    BY <2>2, ConcatProperties
  <2>5. Len(buffer) \in Nat /\ Len(wire) \in Nat /\ Len(buffer) + Len(wire) = blockSize /\ blockSize >= 2
    BY <2>2, <2>3
  <2>6. buffer \o wire # <<>> /\ Head(buffer \o wire) = (buffer \o wire)[1]
    BY <2>4, <2>5
  <2>7. (buffer \o wire)[1].part = 1
    <3>0. 1 \in 1..(Len(buffer) + Len(wire))
      BY <2>5
    <3>1. CASE 1 <= Len(buffer)
      <4>1. 1 \in 1..Len(buffer)
        BY <2>5, <3>1
      <4>2. buffer[1] = Piece(sent, ComingKind, Coming, Off(blockSize) + 1 - 1)
        BY <2>1, <4>1 DEF Frames
      <4>. QED BY <2>2, <2>4, <3>0, <3>1, <4>2 DEF Piece
    <3>2. CASE ~(1 <= Len(buffer))
      <4>1. Len(buffer) = 0 /\ 1 \in 1..Len(wire) /\ 1 - Len(buffer) = 1
        BY <2>5, <3>2
      <4>2. wire[1] = Piece(sent, ComingKind, Coming, Off(blockSize) + Len(buffer) + 1 - 1)
        BY <2>1, <4>1 DEF Frames
      <4>3. Off(blockSize) + Len(buffer) + 1 - 1 = 1
        BY <2>2, <4>1
      <4>. QED BY <2>4, <3>0, <3>2, <4>1, <4>2, <4>3 DEF Piece
    <3>. QED BY <3>1, <3>2
  <2>. QED BY <2>4, <2>5, <2>6, <2>7
<1>. QED BY <1>1, <1>2, <1>3 DEF EachIsRead

\* A service waits for no more than the rest of the message whose size it has read, and a
\* client that sends a message when the one before was read loses none, in whatever portions
\* they arrive.
THEOREM EachIsReadCorrect == Spec => []EachIsRead
BY TypeInit, TypeNext, FramedInit, FramedNext, FramedReads, PTL DEF Spec
-----------------------------------------------------------------------------
(* Signals and timers *)

\* The signals are blocked only after an update that threw half way; while there was none
\* and the log was there, also between two items of a message, the timers follow.
TimersInv ==
  /\ blocked => "halfway" \in trouble
  /\ {"log", "halfway"} \cap trouble = {} => timers = {c \in Collectors : collectors[c] = "on"}

\* Only the handlers of ADD_DATA and REMOVE_DATA change the registries.
LEMMA RegistryStays ==
  ASSUME [Next]_vars, ~Fresh, ~Handle
  PROVE  UNCHANGED registry
<1>1. CASE User
  BY <1>1 DEF User, AddProvider, RemoveProvider, RemoveCollector, SaveCollector, Edit, Request
<1>2. CASE Connect \/ Client
  BY <1>2 DEF Connect, Client, OnStatus, ReadSeries, ReadCollectors, SendSnapshot
<1>3. CASE Arrive \/ ReadMessage
  BY <1>3 DEF Arrive, ReadMessage, ReadPart, ReadDropped, ReadStatus, ReadUpdate, ReadData, ReadRequest, ReadTerminate, ReadUnknown
<1>4. CASE Start \/ Crash \/ StopReturns \/ Cut \/ UNCHANGED vars
  BY <1>4 DEF Start, Crash, StopReturns, Cut, vars
<1>. QED BY <1>1, <1>2, <1>3, <1>4 DEF Next

LEMMA TimersInit == Init => TimersInv
BY DEF Init, TimersInv

LEMMA TimersNext == TypeInv /\ TimersInv /\ [Next]_vars => TimersInv'
<1>. SUFFICES ASSUME TypeInv, TimersInv, [Next]_vars PROVE TimersInv'
  OBVIOUS
<1>1. CASE Fresh
  BY <1>1 DEF Fresh, TimersInv
<1>2. CASE ~Fresh /\ ~Handle
  BY <1>2, RegistryStays, TroubleStays DEF registry, schedule, TimersInv
<1>3. CASE ~Fresh /\ Handle
  <2>0. collectors \in [Collectors -> {"none", "on", "off"}] /\ timers \subseteq Collectors /\ work \subseteq Items
    BY TypeParts DEF RegistryType
  <2>1. PICK w \in work : DoProvider(w) \/ DoSeries(w) \/ DoCollector(w) \/ DropCollector(w) \/ DropSeries(w)
    BY <1>3 DEF Handle
  <2>2. CASE DoProvider(w)
    BY <2>2 DEF DoProvider, Done, TimersInv
  <2>3. CASE DoSeries(w)
    BY <2>3 DEF DoSeries, Done, TimersInv
  <2>4. CASE DoCollector(w)
    <3>1. w.id \in Collectors /\ w.active \in BOOLEAN
      BY <2>0, <2>4 DEF DoCollector, Takes, Items
    <3>2. collectors' = [collectors EXCEPT ![w.id] = IF w.active THEN "on" ELSE "off"]
      BY <2>4 DEF DoCollector
    <3>3. CASE collectors[w.id] # "none" /\ blocked' = FALSE /\ Schedules(w.id, w.active, timers \ {w.id})
      BY <2>0, <3>1, <3>2, <3>3 DEF Schedules, TimersInv
    <3>4. CASE collectors[w.id] = "none" /\ ~blocked /\ Schedules(w.id, w.active, timers) /\ UNCHANGED blocked
      BY <2>0, <3>1, <3>2, <3>4 DEF Schedules, TimersInv
    <3>5. CASE collectors[w.id] = "none" /\ blocked /\ UNCHANGED <<timers, trouble, blocked>>
      BY <3>5 DEF TimersInv
    <3>. QED BY <2>4, <3>3, <3>4, <3>5 DEF DoCollector
  <2>5. CASE DropCollector(w)
    <3>1. w.id \in Collectors
      BY <2>0, <2>5 DEF DropCollector, Takes, Items
    <3>. QED BY <2>0, <2>5, <3>1 DEF DropCollector, Done, Throws, TimersInv
  <2>6. CASE DropSeries(w)
    BY <2>6 DEF DropSeries, Done, Throws, schedule, TimersInv
  <2>. QED BY <2>1, <2>2, <2>3, <2>4, <2>5, <2>6
<1>. QED BY <1>1, <1>2, <1>3

\* Unless an update has thrown half way or the log was missing, a collector has a timer
\* exactly while it is registered as active, whatever was added, updated and removed and in
\* whatever order.
THEOREM TimersFollowCorrect == Spec => []TimersFollow
<1>1. TimersInv => TimersFollow
  BY DEF TimersInv, TimersFollow, Untroubled
<1>. QED BY <1>1, TypeInit, TypeNext, TimersInit, TimersNext, PTL DEF Spec
-----------------------------------------------------------------------------
(* What a message says of a collector *)

DropCollectorItem(c) == [op |-> "dropCollector", id |-> c]
DropSeriesItem(c) == [op |-> "dropSeries", id |-> c]

ItemsOf(S, c) == {w \in S : w.op # "provider" /\ w.id = c}
ProvidersOf(S) == {w.id : w \in {v \in S : v.op = "provider"}}

\* What a message says of collector c when its series has provider p in the database, if any.
Says(c, p, on) == IF p = None THEN Drop(c) ELSE {SeriesItem(c, p), CollectorItem(c, on)}

\* What is registered of a collector then.
Wanted(p, on) == IF p = None THEN "none" ELSE IF on THEN "on" ELSE "off"

\* The items W of collector c that are in hand, when its series is registered with provider s,
\* if any, and itself as k: nothing, a whole message, or what is left of it.  A collector
\* without its series is what an update leaves that threw half way.
Shape(c, W, s, k) ==
  \/ W = {} /\ (k = "none" => s = None)
  \/ \E p \in Providers, on \in BOOLEAN : W = {SeriesItem(c, p), CollectorItem(c, on)} /\ (k = "none" => s = None)
  \/ \E on \in BOOLEAN : W = {CollectorItem(c, on)} /\ s # None
  \/ W = Drop(c) /\ (k = "none" => s = None)
  \/ W = {DropSeriesItem(c)} /\ k = "none"

\* The items in hand say what the database has, and what they do not say is registered.
InHand(c, W, s, k, p, on) ==
  \/ W = {} /\ s = p /\ k = Wanted(p, on)
  \/ W = Says(c, p, on)
  \/ W = {CollectorItem(c, on)} /\ p # None /\ s = p
  \/ W = {DropSeriesItem(c)} /\ p = None /\ k = "none"

LEMMA ItemShape ==
  ASSUME NEW w \in Items
  PROVE  /\ w.op \in {"provider", "series", "collector", "dropCollector", "dropSeries"}
         /\ w.op = "provider" => w.id \in Providers /\ w = ProviderItem(w.id)
         /\ w.op = "series" => w.id \in Collectors /\ w.of \in Providers /\ w = SeriesItem(w.id, w.of)
         /\ w.op = "collector" => w.id \in Collectors /\ w.active \in BOOLEAN /\ w = CollectorItem(w.id, w.active)
         /\ w.op = "dropCollector" => w.id \in Collectors /\ w = DropCollectorItem(w.id)
         /\ w.op = "dropSeries" => w.id \in Collectors /\ w = DropSeriesItem(w.id)
BY DEF Items, ProviderItem, SeriesItem, CollectorItem, DropCollectorItem, DropSeriesItem

LEMMA TakeSeries ==
  ASSUME NEW c, NEW W, NEW s, NEW k, Shape(c, W, s, k), NEW w \in W, w.op = "series"
  PROVE  /\ w.id = c /\ w.of \in Providers
         /\ Shape(c, W \ {w}, w.of, k)
         /\ \A p, on : InHand(c, W, s, k, p, on) => InHand(c, W \ {w}, w.of, k, p, on)
<1>1. PICK p \in Providers, on \in BOOLEAN : W = {SeriesItem(c, p), CollectorItem(c, on)}
  BY DEF Shape, CollectorItem, Drop, DropSeriesItem
<1>2. w = SeriesItem(c, p) /\ w.id = c /\ w.of = p /\ W \ {w} = {CollectorItem(c, on)} /\ p # None
  BY <1>1, ServiceMessagesAssumption DEF SeriesItem, CollectorItem
<1>3. ASSUME NEW q, NEW o, InHand(c, W, s, k, q, o) PROVE q = p /\ CollectorItem(c, o) = CollectorItem(c, on)
  <2>1. W = Says(c, q, o)
    BY <1>1, <1>3 DEF InHand, SeriesItem, CollectorItem, DropSeriesItem
  <2>. QED BY <1>1, <2>1 DEF Says, Drop, SeriesItem, CollectorItem
<1>. QED BY <1>1, <1>2, <1>3 DEF Shape, InHand

LEMMA TakeCollector ==
  ASSUME NEW c, NEW W, NEW s, NEW k, Shape(c, W, s, k), NEW w \in W, w.op = "collector",
         \A v \in W : v.op # "series"
  PROVE  /\ w.id = c /\ w.active \in BOOLEAN /\ W \ {w} = {} /\ s # None
         /\ Shape(c, {}, s, IF w.active THEN "on" ELSE "off")
         /\ \A p, on : InHand(c, W, s, k, p, on) => InHand(c, {}, s, IF w.active THEN "on" ELSE "off", p, on)
<1>0. \A p : SeriesItem(c, p) \notin W /\ SeriesItem(c, p).op = "series"
  BY DEF SeriesItem
<1>1. PICK on \in BOOLEAN : W = {CollectorItem(c, on)} /\ s # None
  <2>1. W # {} /\ W # Drop(c) /\ W # {DropSeriesItem(c)}
    BY DEF Drop, DropSeriesItem
  <2>2. \A p, on : W # {SeriesItem(c, p), CollectorItem(c, on)}
    BY <1>0
  <2>. QED BY <2>1, <2>2 DEF Shape
<1>2. w = CollectorItem(c, on) /\ w.id = c /\ w.active = on
  BY <1>1 DEF CollectorItem
<1>3. Shape(c, {}, s, IF w.active THEN "on" ELSE "off")
  BY <1>1 DEF Shape
<1>4. ASSUME NEW q, NEW o, InHand(c, W, s, k, q, o) PROVE InHand(c, {}, s, IF w.active THEN "on" ELSE "off", q, o)
  <2>1. W = {CollectorItem(c, o)} /\ q # None /\ s = q
    <3>1. W # {} /\ W # Drop(c) /\ W # {DropSeriesItem(c)}
      BY DEF Drop, DropSeriesItem
    <3>2. W # {SeriesItem(c, q), CollectorItem(c, o)}
      BY <1>0
    <3>. QED BY <1>4, <3>1, <3>2 DEF InHand, Says
  <2>2. o = on
    BY <1>1, <2>1 DEF CollectorItem
  <2>. QED BY <1>2, <2>1, <2>2 DEF InHand, Wanted
<1>. QED BY <1>1, <1>2, <1>3, <1>4

LEMMA TakeDropCollector ==
  ASSUME NEW c, NEW W, NEW s, NEW k, Shape(c, W, s, k), NEW w \in W, w.op = "dropCollector"
  PROVE  /\ w.id = c /\ (k = "none" => s = None) /\ W \ {w} = {DropSeriesItem(c)}
         /\ Shape(c, W \ {w}, s, "none")
         /\ \A p, on : InHand(c, W, s, k, p, on) => InHand(c, W \ {w}, s, "none", p, on)
<1>1. W = Drop(c) /\ (k = "none" => s = None)
  BY DEF Shape, SeriesItem, CollectorItem, DropSeriesItem
<1>2. w = DropCollectorItem(c) /\ w.id = c /\ W \ {w} = {DropSeriesItem(c)}
  BY <1>1 DEF Drop, DropCollectorItem, DropSeriesItem
<1>3. ASSUME NEW q, NEW o, InHand(c, W, s, k, q, o) PROVE q = None
  BY <1>1, <1>3 DEF InHand, Says, Drop, SeriesItem, CollectorItem
<1>. QED BY <1>1, <1>2, <1>3 DEF Shape, InHand

LEMMA TakeDropSeries ==
  ASSUME NEW c, NEW W, NEW s, NEW k, Shape(c, W, s, k), NEW w \in W, w.op = "dropSeries",
         \A v \in W : v.op # "dropCollector"
  PROVE  /\ w.id = c /\ W \ {w} = {} /\ k = "none"
         /\ Shape(c, {}, None, k)
         /\ \A p, on : InHand(c, W, s, k, p, on) => InHand(c, {}, None, k, p, on)
<1>1. W = {DropSeriesItem(c)} /\ k = "none"
  <2>1. W # {} /\ \A on : W # {CollectorItem(c, on)}
    BY DEF CollectorItem
  <2>2. \A p, on : W # {SeriesItem(c, p), CollectorItem(c, on)}
    BY DEF SeriesItem, CollectorItem
  <2>3. W # Drop(c)
    <3>1. DropCollectorItem(c) \in Drop(c) /\ DropCollectorItem(c).op = "dropCollector"
      BY DEF Drop, DropCollectorItem
    <3>. QED BY <3>1
  <2>. QED BY <2>1, <2>2, <2>3 DEF Shape
<1>2. w = DropSeriesItem(c) /\ w.id = c
  BY <1>1 DEF DropSeriesItem
<1>3. ASSUME NEW q, NEW o, InHand(c, W, s, k, q, o) PROVE q = None
  BY <1>1, <1>3 DEF InHand, Says, Drop, SeriesItem, CollectorItem, DropSeriesItem
<1>. QED BY <1>1, <1>2, <1>3 DEF Shape, InHand, Wanted

\* A message that says what the database has is in hand once it is read.
LEMMA WholeInHand ==
  ASSUME NEW c, NEW s, NEW k, NEW p \in Providers \cup {None}, NEW on \in BOOLEAN, Shape(c, {}, s, k)
  PROVE  Shape(c, Says(c, p, on), s, k) /\ InHand(c, Says(c, p, on), s, k, p, on)
<1>1. k = "none" => s = None
  BY DEF Shape, Drop
<1>. QED BY <1>1 DEF Shape, InHand, Says

LEMMA SaysItems ==
  ASSUME NEW c \in Collectors, NEW p \in Providers \cup {None}, NEW on \in BOOLEAN
  PROVE  /\ Says(c, p, on) # {} /\ Says(c, p, on) \subseteq Items
         /\ ItemsOf(Says(c, p, on), c) = Says(c, p, on)
         /\ \A d : d # c => ItemsOf(Says(c, p, on), d) = {}
         /\ ProvidersOf(Says(c, p, on)) = {}
<1>1. Says(c, p, on) \subseteq Items
  BY ItemsAre DEF Says
<1>2. \A w \in Says(c, p, on) : w.op # "provider" /\ w.id = c
  BY DEF Says, Drop, SeriesItem, CollectorItem
<1>3. Says(c, p, on) # {}
  BY DEF Says, Drop
<1>. QED BY <1>1, <1>2, <1>3 DEF ItemsOf, ProvidersOf
-----------------------------------------------------------------------------
(* What the client waits for and what the service has answered *)

\* No message was sent into another and none was lost.
Calm == trouble \subseteq {"missing", "halfway", "log"}

\* The client has still to send all data.
Early == phase \in {"updated", "series", "collectors"}

\* A service that is not loaded has nothing and UPDATE_SERVICE is on its way to it exactly
\* while the client has the data to send; what it has answered is still true.
Exchange ==
  /\ service # "loaded" =>
       /\ work = {} /\ providers = {} /\ \A c \in Collectors : series[c] = None /\ collectors[c] = "none"
       /\ phase # "told"
       /\ ComingKind = "UPDATE" <=> Early
       /\ answers \in Seq({"unloaded"})
  /\ service = "loaded" =>
       /\ ComingKind # "UPDATE" /\ (valid \/ "log" \in trouble)
       /\ answers \in Seq({"loaded"})
  /\ Early => answers = <<>> /\ ComingKind # "STATUS"
  /\ phase = "open" => Len(answers) <= 1 /\ (answers = <<>> \/ ComingKind # "STATUS")
  /\ phase = "closed" => answers = <<>> /\ Silent

LEMMA CalmBefore ==
  ASSUME [Next]_vars, ~Fresh, Calm'
  PROVE  Calm /\ Orderly /\ Orderly'
BY TroubleStays DEF Calm, Orderly

LEMMA SilentKind == Silent => ComingKind = "none" /\ Coming = {}
BY DEF ComingKind, Coming

LEMMA FreshComing == Fresh => Silent' /\ ComingKind' = "none" /\ Coming' = {}
BY DEF Fresh, Silent, ComingKind, Coming

LEMMA ExchangeInit == Init => Exchange
BY SilentKind DEF Init, Exchange, Silent, Early

LEMMA ExchangeFresh == TypeInv /\ Fresh => Exchange'
BY FreshComing DEF Fresh, Exchange, Early

\* Only UPDATE_SERVICE loads a service, and only one that is not loaded.
LEMMA ExchangeNext ==
  ASSUME TypeInv, Framed, Exchange, [Next]_vars, ~Fresh, Calm'
  PROVE  Exchange'
<1>0. /\ phase \in Phases /\ service \in {"down", "up", "loaded"} /\ answers \in Seq({"unloaded", "loaded"})
      /\ trouble \subseteq trouble' /\ Orderly /\ Orderly'
  BY TypeParts, TroubleStays, CalmBefore DEF ClientType, StateType
<1>1. ASSUME NEW kind \in {"ADD", "REMOVE"}, NEW content \in SUBSET Items, Edit(kind, content) PROVE Exchange'
  <2>1. UNCHANGED <<phase, answers, service, valid, work, providers, series, collectors>>
    BY <1>1 DEF Edit, state, registry, schedule
  <2>2. CASE phase # "closed" /\ Silent /\ ComingKind' = kind
    <3>1. ComingKind = "none"
      BY <2>2, SilentKind
    <3>. QED BY <1>0, <2>1, <2>2, <3>1 DEF Exchange, Early
  <2>3. CASE phase = "closed" /\ ComingKind' = ComingKind /\ Silent' = Silent
    BY <1>0, <2>1, <2>3 DEF Exchange, Early
  <2>. QED BY <1>0, <1>1, <2>2, <2>3, EditComing
<1>2. CASE User
  <2>1. ASSUME NEW p \in Providers, AddProvider(p) PROVE Exchange'
    BY <2>1, <1>1, ItemsAre DEF AddProvider
  <2>2. ASSUME NEW p \in Providers, RemoveProvider(p) PROVE Exchange'
    BY <2>2, <1>1 DEF RemoveProvider
  <2>3. ASSUME NEW c \in Collectors, RemoveCollector(c) PROVE Exchange'
    BY <2>3, <1>1, ItemsAre DEF RemoveCollector
  <2>4. ASSUME NEW c \in Collectors, NEW p \in Providers, NEW on \in BOOLEAN, SaveCollector(c, p, on) PROVE Exchange'
    BY <2>4, <1>1, ItemsAre DEF SaveCollector
  <2>5. ASSUME NEW what \in Requests, Request(what) PROVE Exchange'
    <3>1. Send("STATUS", {}) /\ phase = "told"
      BY <2>5, <1>0, SendBothDisorderly DEF Request
    <3>2. ComingKind' = "STATUS" /\ ComingKind = "none"
      BY <2>5, <3>1, <1>0, ClientComing, SilentKind DEF Request, reader, Contents
    <3>3. UNCHANGED <<phase, answers, service, valid, work, providers, series, collectors>>
      BY <2>5 DEF Request, state, registry, schedule
    <3>. QED BY <1>0, <3>1, <3>2, <3>3 DEF Exchange, Early
  <2>. QED BY <1>2, <2>1, <2>2, <2>3, <2>4, <2>5 DEF User
<1>3. CASE Connect
  <2>1. ComingKind' = "STATUS" /\ ComingKind = "none"
    BY <1>3, <1>0, ClientComing, SilentKind DEF Connect, reader, Contents
  <2>2. phase = "closed" /\ phase' = "open" /\ UNCHANGED <<answers, service, valid, work, providers, series, collectors>>
    BY <1>3 DEF Connect, state, registry, schedule
  <2>3. answers = <<>> /\ Len(<<>>) = 0
    BY <2>2 DEF Exchange
  <2>. QED BY <1>0, <2>1, <2>2, <2>3 DEF Exchange, Early
<1>4. CASE OnStatus
  <2>1. answers # <<>> /\ answers' = Tail(answers) /\ UNCHANGED <<service, valid, work, providers, series, collectors>>
    BY <1>4 DEF OnStatus, state, registry, schedule
  <2>2. ~Early /\ phase # "closed"
    BY <2>1 DEF Exchange
  <2>3. /\ service = "loaded" => answers \in Seq({"loaded"}) /\ Tail(answers) \in Seq({"loaded"}) /\ Head(answers) = "loaded"
        /\ service # "loaded" => answers \in Seq({"unloaded"}) /\ Tail(answers) \in Seq({"unloaded"}) /\ Head(answers) = "unloaded"
    <3>1. CASE service = "loaded"
      <4>1. answers \in Seq({"loaded"})
        BY <3>1 DEF Exchange
      <4>. QED BY <2>1, <3>1, <4>1
    <3>2. CASE service # "loaded"
      <4>1. answers \in Seq({"unloaded"})
        BY <3>2 DEF Exchange
      <4>. QED BY <2>1, <3>2, <4>1
    <3>. QED BY <3>1, <3>2
  <2>4. CASE Head(answers) = "unloaded" /\ Send("UPDATE", {}) /\ phase' = "updated"
    <3>1. service # "loaded" /\ phase = "open"
      BY <1>0, <2>2, <2>3, <2>4 DEF Exchange, Early, Phases
    <3>2. ComingKind' = "UPDATE"
      BY <1>4, <2>4, <1>0, ClientComing DEF OnStatus, reader, Contents
    <3>3. answers' = <<>>
      <4>1. Len(answers) <= 1
        BY <3>1 DEF Exchange
      <4>. QED BY <1>0, <2>1, <4>1
    <3>. QED BY <2>1, <2>3, <2>4, <3>1, <3>2, <3>3 DEF Exchange, Early
  <2>5. CASE Head(answers) = "loaded" /\ phase' = (IF phase = "open" THEN "told" ELSE phase) /\ UNCHANGED <<sent, wire, trouble>>
    <3>1. ComingKind' = ComingKind /\ service = "loaded"
      BY <1>4, <2>3, <2>5, QuietComing, <1>0 DEF OnStatus
    <3>. QED BY <2>1, <2>2, <2>3, <2>5, <3>1 DEF Exchange, Early
  <2>. QED BY <1>4, <2>4, <2>5 DEF OnStatus
<1>5. CASE ReadSeries \/ ReadCollectors
  <2>1. UNCHANGED <<answers, service, valid, work, providers, series, collectors, trouble, wire, buffer>> /\ Early /\ Early' /\ phase' \notin {"open", "closed", "told"}
    BY <1>5 DEF ReadSeries, ReadCollectors, state, registry, schedule, socket, Early
  <2>2. ComingKind' = ComingKind
    BY <2>1, QuietComing
  <2>. QED BY <2>1, <2>2 DEF Exchange
<1>6. CASE SendSnapshot
  <2>1. ComingKind' = "ADD" /\ ComingKind = "none"
    <3>1. snapshot \in Contents("ADD")
      BY TypeParts DEF ClientType, Contents
    <3>. QED BY <1>6, <3>1, <1>0, ClientComing, SilentKind DEF SendSnapshot, reader
  <2>2. Early /\ phase' = "told" /\ UNCHANGED <<answers, service, valid, work, providers, series, collectors>>
    BY <1>6 DEF SendSnapshot, state, registry, schedule, Early
  <2>. QED BY <1>0, <2>1, <2>2 DEF Exchange, Early
<1>7. CASE Arrive \/ ReadPart
  <2>1. ComingKind' = ComingKind /\ Silent' = Silent
    <3>1. CASE Arrive
      BY <1>0, <3>1, ArriveComing DEF Silent
    <3>2. CASE ReadPart
      BY <1>0, <3>2, PartComing
    <3>. QED BY <1>7, <3>1, <3>2
  <2>2. UNCHANGED <<phase, answers, service, valid, work, providers, series, collectors, trouble>>
    BY <1>7 DEF Arrive, ReadPart, client, state, registry, schedule
  <2>. QED BY <2>1, <2>2 DEF Exchange, Early
<1>8. CASE ReadMessage /\ ~ReadPart
  <2>0. ASSUME AtHand PROVE Recognized /\ ~Silent /\ Head(Behind).kind = ComingKind /\ ComingKind \in {"STATUS", "UPDATE", "ADD", "REMOVE"}
    BY <1>0, <2>0, AtHandFramed
  <2>1. CASE ReadTerminate
    BY <2>0, <2>1 DEF ReadTerminate, Reads
  <2>2. CASE ReadUnknown
    BY <2>2 DEF ReadUnknown
  <2>3. ASSUME Complete, UNCHANGED <<wire, sent>>, last' = Head(Behind).n PROVE Silent' /\ ComingKind' = "none"
    BY <1>0, <2>3, CompleteComing
  <2>4. CASE ReadDropped
    <3>1. UNCHANGED <<phase, answers, service, valid, work, providers, series, collectors, trouble>>
      BY <2>4 DEF ReadDropped, client, state, registry, schedule
    <3>2. ~Silent /\ service # "loaded" /\ ComingKind # "UPDATE" /\ ComingKind' = "none"
      BY <2>0, <2>3, <2>4 DEF ReadDropped, Complete, client
    <3>. QED BY <3>1, <3>2 DEF Exchange, Early
  <2>5. CASE ReadStatus
    <3>1. UNCHANGED <<phase, service, valid, work, providers, series, collectors, trouble>>
          /\ answers' = Append(answers, IF service = "loaded" THEN "loaded" ELSE "unloaded")
      BY <2>5 DEF ReadStatus, client, state, registry, schedule
    <3>2. ~Silent /\ ComingKind = "STATUS" /\ ComingKind' = "none"
      BY <2>0, <2>3, <2>5 DEF ReadStatus, Complete, Reads, client
    <3>3. ~Early /\ phase # "closed" /\ (phase = "open" => answers = <<>>)
      BY <3>2 DEF Exchange
    <3>4. phase = "open" => Len(answers') <= 1
      BY <3>1, <3>3
    <3>5. (service # "loaded" => answers' \in Seq({"unloaded"})) /\ (service = "loaded" => answers' \in Seq({"loaded"}))
      BY <3>1 DEF Exchange
    <3>. QED BY <3>1, <3>2, <3>3, <3>4, <3>5 DEF Exchange, Early
  <2>6. CASE ReadUpdate
    <3>1. ~Silent /\ ComingKind = "UPDATE" /\ ComingKind' = "none"
      BY <2>0, <2>3, <2>6 DEF ReadUpdate, Complete, Reads, client
    <3>2. service # "loaded" /\ Early /\ answers = <<>>
      BY <3>1 DEF Exchange
    <3>3. service' = "loaded" /\ (valid' \/ "log" \in trouble') /\ UNCHANGED <<phase, answers>>
      BY <2>6 DEF ReadUpdate, client
    <3>. QED BY <3>1, <3>2, <3>3 DEF Exchange, Early
  <2>7. CASE ReadData
    <3>1. UNCHANGED <<phase, answers, service, valid, trouble>>
      BY <2>7 DEF ReadData, client, state, registry, schedule
    <3>2. ~Silent /\ service = "loaded" /\ ComingKind' = "none"
      BY <2>0, <2>3, <2>7 DEF ReadData, Complete, Reads, client
    <3>. QED BY <3>1, <3>2 DEF Exchange, Early
  <2>8. CASE ReadRequest
    BY <2>0, <2>8 DEF ReadRequest, Complete, Reads
  <2>. QED BY <1>8, <2>1, <2>2, <2>4, <2>5, <2>6, <2>7, <2>8 DEF ReadMessage
<1>9. CASE Handle
  <2>1. PICK w \in work : DoProvider(w) \/ DoSeries(w) \/ DoCollector(w) \/ DropCollector(w) \/ DropSeries(w)
    BY <1>9 DEF Handle
  <2>2. service = "loaded"
    BY <2>1 DEF Exchange
  <2>3. UNCHANGED <<phase, answers, service, valid, wire, buffer>>
    BY <2>1 DEF DoProvider, DoSeries, DoCollector, DropCollector, DropSeries, client, socket, state
  <2>4. ComingKind' = ComingKind /\ Silent' = Silent
    BY <2>3, QuietComing
  <2>. QED BY <1>0, <2>2, <2>3, <2>4 DEF Exchange, Early
<1>10. CASE Start
  <2>1. UNCHANGED <<phase, answers, work, providers, series, collectors, trouble, wire, buffer>> /\ service # "loaded" /\ service' # "loaded"
    BY <1>10 DEF Start, client, socket, registry, schedule
  <2>2. ComingKind' = ComingKind /\ Silent' = Silent
    BY <2>1, QuietComing
  <2>. QED BY <2>1, <2>2 DEF Exchange, Early
<1>11. CASE Crash \/ StopReturns
  BY <1>11 DEF Crash, StopReturns
<1>12. CASE Cut
  <2>1. ~Outstanding /\ phase \in {"open", "told"}
    BY <1>12 DEF Cut, Calm
  <2>2. ComingKind = "none" /\ Silent
    BY <2>1, SilentKind DEF Outstanding, Silent
  <2>3. /\ wire' = <<>> /\ buffer' = <<>> /\ answers' = <<>> /\ phase' = "closed"
        /\ UNCHANGED <<service, valid, work, providers, series, collectors>>
    BY <1>12 DEF Cut, state, registry, schedule
  <2>4. Silent' /\ ComingKind' = "none"
    BY <2>3 DEF Silent, ComingKind
  <2>. QED BY <1>0, <2>1, <2>2, <2>3, <2>4 DEF Exchange, Early
<1>13. CASE UNCHANGED vars
  <2>1. UNCHANGED <<phase, answers, service, valid, work, providers, series, collectors, trouble, wire, buffer>>
    BY <1>13 DEF vars, client, socket, state, registry, schedule
  <2>2. ComingKind' = ComingKind /\ Silent' = Silent
    BY <2>1, QuietComing
  <2>. QED BY <2>1, <2>2 DEF Exchange, Early
<1>. QED BY <1>2, <1>3, <1>4, <1>5, <1>6, <1>7, <1>8, <1>9, <1>10, <1>11, <1>12, <1>13 DEF Next, Client
-----------------------------------------------------------------------------
(* The database, the first ADD_DATA and the registries *)

\* A collector has a series, and its series a provider.
Database ==
  /\ \A c \in Collectors : dbSeries[c] # None => dbSeries[c] \in dbProviders
  /\ \A c \in dbActive : dbSeries[c] # None

\* While it was sent nothing else, the client has read what the database has.
Snapshot ==
  /\ phase = "series" => snapshot = {ProviderItem(p) : p \in dbProviders} \cup
       {SeriesItem(c, dbSeries[c]) : c \in {d \in Collectors : dbSeries[d] # None}}
  /\ phase = "collectors" => snapshot = {ProviderItem(p) : p \in dbProviders} \cup
       {SeriesItem(c, dbSeries[c]) : c \in {d \in Collectors : dbSeries[d] # None}} \cup
       {CollectorItem(c, c \in dbActive) : c \in {d \in Collectors : dbSeries[d] # None}}

\* The service has been sent all data.
HasAll == service = "loaded" /\ ~Early

\* What is on its way says what the database has of c; or nothing is on its way, and what
\* the database has is in hand or registered.
Agrees(c, M, W, s, k, p, on) == M = Says(c, p, on) \/ (M = {} /\ InHand(c, W, s, k, p, on))

\* The service has nothing of the collector yet, or has lost its series when an update of
\* what the database still has threw half way.
Unknown(M, W, s, k, p) == M = {} /\ W = {} /\ s = None /\ (p = None => k = "none")

\* The items are about one collector.
OneOnly(S) == \A v, w \in S : v.op # "provider" /\ w.op # "provider" => v.id = w.id

\* No item in hand will fail.
Sound ==
  /\ \A w \in work : w.op = "series" => w.of \in providers \cup ProvidersOf(work)
  /\ \A w \in work : w.op = "dropCollector" => collectors[w.id] # "none"
  /\ \A w \in work : w.op = "dropSeries" => series[w.id] # None

\* If one fails nothing is lost: they are about one collector, and the first ADD_DATA is on
\* its way, which says all providers and more of it unless it is gone.
Harmless ==
  /\ ~Silent /\ OneOnly(work) /\ dbProviders \subseteq ProvidersOf(Coming)
  /\ \A w \in Coming : w.op \notin {"dropCollector", "dropSeries"}
  /\ \A w \in work : w.op # "provider" => ItemsOf(Coming, w.id) # {} \/ dbSeries[w.id] = None

\* Collector c is registered, or will be when what is in hand is done.
Registers(c) ==
  /\ DropCollectorItem(c) \notin work
  /\ collectors[c] # "none" \/ \E i \in work : i.op = "collector" /\ i.id = c

\* So it is with its series.
HasSeries(c) ==
  /\ DropSeriesItem(c) \notin work
  /\ series[c] # None \/ \E i \in work : i.op = "series" /\ i.id = c

\* Nothing that a handler does loses a collector or its series.
Keeps == \A c \in Collectors : (Registers(c) => Registers(c)') /\ (HasSeries(c) => HasSeries(c)')

\* What a message on its way removes is registered.
DropsComing ==
  \A w \in Coming :
    /\ w.op = "dropCollector" => Registers(w.id)
    /\ w.op = "dropSeries" => HasSeries(w.id)

Paired == \A c \in Collectors : Shape(c, ItemsOf(work, c), series[c], collectors[c])

Registries ==
  /\ Paired
  /\ \A c \in Collectors :
       \/ Agrees(c, ItemsOf(Coming, c), ItemsOf(work, c), series[c], collectors[c], dbSeries[c], c \in dbActive)
       \/ ~HasAll /\ Unknown(ItemsOf(Coming, c), ItemsOf(work, c), series[c], collectors[c], dbSeries[c])
  /\ ~HasAll => OneOnly(work) /\ OneOnly(Coming)
  /\ HasAll =>
       /\ dbProviders \subseteq providers \cup ProvidersOf(work) \cup ProvidersOf(Coming)
       /\ (Sound /\ DropsComing) \/ Harmless

LEMMA DatabaseNext ==
  ASSUME TypeInv, Database, [Next]_vars
  PROVE  Database'
<1>0. DbType
  BY TypeParts
<1>1. CASE User
  <2>1. ASSUME NEW p \in Providers, AddProvider(p) PROVE Database'
    BY <2>1 DEF AddProvider, Database
  <2>2. ASSUME NEW p \in Providers, RemoveProvider(p) PROVE Database'
    BY <2>2 DEF RemoveProvider, Database
  <2>3. ASSUME NEW c \in Collectors, RemoveCollector(c) PROVE Database'
    BY <1>0, <2>3 DEF RemoveCollector, Database, DbType
  <2>4. ASSUME NEW c \in Collectors, NEW p \in Providers, NEW on \in BOOLEAN, SaveCollector(c, p, on) PROVE Database'
    BY <1>0, <2>4, ServiceMessagesAssumption DEF SaveCollector, Database, DbType
  <2>5. ASSUME NEW what \in Requests, Request(what) PROVE Database'
    BY <2>5 DEF Request, Database
  <2>. QED BY <1>1, <2>1, <2>2, <2>3, <2>4, <2>5 DEF User
<1>2. CASE ~User
  <2>1. UNCHANGED database
    <3>1. CASE Connect \/ Client
      BY <3>1 DEF Connect, Client, OnStatus, ReadSeries, ReadCollectors, SendSnapshot
    <3>2. CASE Arrive \/ ReadMessage
      BY <3>2 DEF Arrive, ReadMessage, ReadPart, ReadDropped, ReadStatus, ReadUpdate, ReadData, ReadRequest, ReadTerminate, ReadUnknown, Fresh
    <3>3. CASE Handle
      BY <3>3 DEF Handle, DoProvider, DoSeries, DoCollector, DropCollector, DropSeries
    <3>4. CASE Start \/ Crash \/ StopReturns \/ Cut \/ UNCHANGED vars
      BY <3>4 DEF Start, Crash, StopReturns, Cut, vars, Fresh
    <3>. QED BY <1>2, <3>1, <3>2, <3>3, <3>4 DEF Next
  <2>. QED BY <2>1 DEF database, Database
<1>. QED BY <1>1, <1>2

\* An edit while the data is read is one of the troubles.
LEMMA SnapshotNext ==
  ASSUME TypeInv, Snapshot, [Next]_vars, Calm'
  PROVE  Snapshot'
<1>1. ASSUME NEW kind, NEW content, Edit(kind, content) PROVE Snapshot'
  <2>1. phase \notin {"series", "collectors"} /\ phase' = phase
    BY <1>1 DEF Edit, Calm
  <2>. QED BY <2>1 DEF Snapshot
<1>2. CASE User
  <2>1. ASSUME NEW what \in Requests, Request(what) PROVE Snapshot'
    BY <2>1 DEF Request, Snapshot
  <2>. QED BY <1>1, <1>2, <2>1 DEF User, AddProvider, RemoveProvider, RemoveCollector, SaveCollector
<1>3. CASE ReadSeries
  BY <1>3 DEF ReadSeries, Snapshot, database
<1>4. CASE ReadCollectors
  BY <1>4 DEF ReadCollectors, Snapshot, database
<1>5. CASE Connect \/ OnStatus \/ SendSnapshot \/ Cut \/ Fresh
  <2>1. phase' \notin {"series", "collectors"} \/ UNCHANGED <<phase, snapshot, database>>
    BY <1>5 DEF Connect, OnStatus, SendSnapshot, Cut, Fresh
  <2>. QED BY <2>1 DEF Snapshot, database
<1>6. CASE Arrive \/ (ReadMessage /\ ~Fresh) \/ Handle \/ Start \/ UNCHANGED vars
  <2>1. UNCHANGED <<phase, snapshot, database>>
    <3>1. CASE Arrive \/ (ReadMessage /\ ~Fresh)
      BY <3>1 DEF Arrive, ReadMessage, ReadPart, ReadDropped, ReadStatus, ReadUpdate, ReadData, ReadRequest, ReadTerminate, ReadUnknown, client
    <3>2. CASE Handle
      BY <3>2 DEF Handle, DoProvider, DoSeries, DoCollector, DropCollector, DropSeries, client
    <3>3. CASE Start \/ UNCHANGED vars
      BY <3>3 DEF Start, vars, client
    <3>. QED BY <1>6, <3>1, <3>2, <3>3
  <2>. QED BY <2>1 DEF Snapshot, database
<1>. QED BY <1>2, <1>3, <1>4, <1>5, <1>6 DEF Next, Client, Crash, StopReturns

LEMMA RegistriesQuiet ==
  ASSUME Registries, UNCHANGED <<database, work, providers, series, collectors>>,
         Coming' = Coming, Silent' = Silent, HasAll' <=> HasAll
  PROVE  Registries'
<1>1. Paired'
  BY DEF Registries, Paired
<1>2. ASSUME NEW c \in Collectors
      PROVE \/ Agrees(c, ItemsOf(Coming', c), ItemsOf(work', c), series'[c], collectors'[c], dbSeries'[c], c \in dbActive')
            \/ ~HasAll' /\ Unknown(ItemsOf(Coming', c), ItemsOf(work', c), series'[c], collectors'[c], dbSeries'[c])
  BY DEF Registries, database
<1>3. ((Sound /\ DropsComing) \/ Harmless) => ((Sound' /\ DropsComing') \/ Harmless')
  BY DEF Sound, DropsComing, Registers, HasSeries, Harmless, database
<1>. QED BY <1>1, <1>2, <1>3 DEF Registries, database

\* A message that says nothing comes or is read.
LEMMA RegistriesSame ==
  ASSUME Registries, UNCHANGED <<database, work, providers, series, collectors>>, HasAll' <=> HasAll,
         Coming' = {}, Coming = {}, Silent \/ ~Silent' \/ work = {}
  PROVE  Registries'
<1>1. Paired'
  BY DEF Registries, Paired
<1>2. ASSUME NEW c \in Collectors
      PROVE \/ Agrees(c, ItemsOf(Coming', c), ItemsOf(work', c), series'[c], collectors'[c], dbSeries'[c], c \in dbActive')
            \/ ~HasAll' /\ Unknown(ItemsOf(Coming', c), ItemsOf(work', c), series'[c], collectors'[c], dbSeries'[c])
  BY DEF Registries, database
<1>3. ((Sound /\ DropsComing) \/ Harmless) => ((Sound' /\ DropsComing') \/ Harmless')
  <2>1. DropsComing'
    BY DEF DropsComing
  <2>2. Sound => Sound'
    BY DEF Sound
  <2>3. work = {} => Sound'
    BY DEF Sound
  <2>4. ~Silent /\ ~Silent' /\ Harmless => Harmless'
    BY DEF Harmless, database
  <2>5. Silent => ~Harmless
    BY DEF Harmless
  <2>. QED BY <2>1, <2>2, <2>3, <2>4, <2>5
<1>. QED BY <1>1, <1>2, <1>3 DEF Registries, database

LEMMA ItemsRest ==
  ASSUME NEW S \in SUBSET Items, NEW w \in S
  PROVE  /\ w.op = "provider" =>
              /\ \A c : ItemsOf(S \ {w}, c) = ItemsOf(S, c)
              /\ ProvidersOf(S) = ProvidersOf(S \ {w}) \cup {w.id}
         /\ w.op # "provider" =>
              /\ w \in ItemsOf(S, w.id) /\ ItemsOf(S \ {w}, w.id) = ItemsOf(S, w.id) \ {w}
              /\ \A c : c # w.id => ItemsOf(S \ {w}, c) = ItemsOf(S, c)
              /\ ProvidersOf(S \ {w}) = ProvidersOf(S)
<1>1. CASE w.op = "provider"
  <2>1. \A c : ItemsOf(S \ {w}, c) = ItemsOf(S, c)
    BY <1>1 DEF ItemsOf
  <2>2. ProvidersOf(S) = ProvidersOf(S \ {w}) \cup {w.id}
    BY <1>1 DEF ProvidersOf
  <2>. QED BY <1>1, <2>1, <2>2
<1>2. CASE w.op # "provider"
  <2>1. w \in ItemsOf(S, w.id) /\ ItemsOf(S \ {w}, w.id) = ItemsOf(S, w.id) \ {w}
    BY <1>2 DEF ItemsOf
  <2>2. \A c : c # w.id => ItemsOf(S \ {w}, c) = ItemsOf(S, c)
    BY <1>2 DEF ItemsOf
  <2>3. ProvidersOf(S \ {w}) = ProvidersOf(S)
    BY <1>2 DEF ProvidersOf
  <2>. QED BY <1>2, <2>1, <2>2, <2>3
<1>. QED BY <1>1, <1>2

LEMMA NoItems == /\ \A c : ItemsOf({}, c) = {}
                 /\ ProvidersOf({}) = {} /\ OneOnly({})
BY DEF ItemsOf, ProvidersOf, OneOnly

LEMMA SnapshotItems ==
  ASSUME TypeInv, Snapshot, phase = "collectors"
  PROVE  /\ \A c \in Collectors : ItemsOf(snapshot, c) =
              IF dbSeries[c] = None THEN {} ELSE Says(c, dbSeries[c], c \in dbActive)
         /\ ProvidersOf(snapshot) = dbProviders
         /\ \A w \in snapshot : w.op \notin {"dropCollector", "dropSeries"}
<1>. DEFINE known == {d \in Collectors : dbSeries[d] # None}
            ps == {ProviderItem(p) : p \in dbProviders}
            ss == {SeriesItem(c, dbSeries[c]) : c \in known}
            cs == {CollectorItem(c, c \in dbActive) : c \in known}
<1>1. snapshot = ps \cup ss \cup cs
  BY DEF Snapshot
<1>2. /\ \A w \in ps : w.op = "provider" /\ w.id \in dbProviders
      /\ \A w \in ss : w.op = "series" /\ w.id \in known /\ w = SeriesItem(w.id, dbSeries[w.id])
      /\ \A w \in cs : w.op = "collector" /\ w.id \in known /\ w = CollectorItem(w.id, w.id \in dbActive)
  BY DEF ProviderItem, SeriesItem, CollectorItem
<1>3. /\ \A p \in dbProviders : ProviderItem(p) \in ps /\ ProviderItem(p).id = p /\ ProviderItem(p).op = "provider"
      /\ \A c \in known : SeriesItem(c, dbSeries[c]) \in ss /\ CollectorItem(c, c \in dbActive) \in cs
  BY DEF ProviderItem
<1>4. \A c, p, on : SeriesItem(c, p).id = c /\ CollectorItem(c, on).id = c /\ SeriesItem(c, p).op = "series" /\ CollectorItem(c, on).op = "collector"
  BY DEF SeriesItem, CollectorItem
<1>5. \A c : c \in known <=> c \in Collectors /\ dbSeries[c] # None
  OBVIOUS
<1>. HIDE DEF known, ps, ss, cs
<1>6. \A w \in snapshot : w.op \notin {"dropCollector", "dropSeries"}
  BY <1>1, <1>2
<1>7. ProvidersOf(snapshot) = dbProviders
  <2>1. \A p \in dbProviders : p \in ProvidersOf(snapshot)
    BY <1>1, <1>3 DEF ProvidersOf
  <2>2. \A p \in ProvidersOf(snapshot) : p \in dbProviders
    BY <1>1, <1>2 DEF ProvidersOf
  <2>. QED BY <2>1, <2>2
<1>8. ASSUME NEW c \in Collectors
      PROVE  ItemsOf(snapshot, c) = IF dbSeries[c] = None THEN {} ELSE Says(c, dbSeries[c], c \in dbActive)
  <2>1. CASE dbSeries[c] = None
    BY <1>1, <1>2, <1>5, <2>1 DEF ItemsOf
  <2>2. CASE dbSeries[c] # None
    <3>1. \A w \in ItemsOf(snapshot, c) : w = SeriesItem(c, dbSeries[c]) \/ w = CollectorItem(c, c \in dbActive)
      BY <1>1, <1>2 DEF ItemsOf
    <3>2. SeriesItem(c, dbSeries[c]) \in ItemsOf(snapshot, c) /\ CollectorItem(c, c \in dbActive) \in ItemsOf(snapshot, c)
      BY <1>1, <1>3, <1>4, <1>5, <2>2 DEF ItemsOf
    <3>. QED BY <2>2, <3>1, <3>2 DEF Says
  <2>. QED BY <2>1, <2>2
<1>. QED BY <1>6, <1>7, <1>8

\* A collector of the database that is in hand or registered stays so.
LEMMA InHandRegistered ==
  ASSUME NEW c, NEW W, NEW s, NEW k, NEW p, NEW on, InHand(c, W, s, k, p, on), p # None
  PROVE  /\ DropCollectorItem(c) \notin W /\ (k # "none" \/ \E i \in W : i.op = "collector" /\ i.id = c)
         /\ DropSeriesItem(c) \notin W /\ (s # None \/ \E i \in W : i.op = "series" /\ i.id = c)
<1>1. CASE W = {} /\ s = p /\ k = Wanted(p, on)
  BY <1>1 DEF Wanted
<1>2. CASE W = {SeriesItem(c, p), CollectorItem(c, on)} \/ W = {CollectorItem(c, on)}
  <2>1. CollectorItem(c, on) \in W /\ CollectorItem(c, on).op = "collector" /\ CollectorItem(c, on).id = c
    BY <1>2 DEF CollectorItem
  <2>2. \A w \in W : w.op \in {"series", "collector"}
    BY <1>2 DEF SeriesItem, CollectorItem
  <2>3. DropCollectorItem(c).op = "dropCollector" /\ DropSeriesItem(c).op = "dropSeries"
    BY DEF DropCollectorItem, DropSeriesItem
  <2>4. s # None \/ \E i \in W : i.op = "series" /\ i.id = c
    <3>1. SeriesItem(c, p).op = "series" /\ SeriesItem(c, p).id = c
      BY DEF SeriesItem
    <3>2. CASE W = {SeriesItem(c, p), CollectorItem(c, on)}
      BY <3>1, <3>2
    <3>3. CASE W = {CollectorItem(c, on)} /\ W # {SeriesItem(c, p), CollectorItem(c, on)}
      BY <3>3 DEF InHand, Says
    <3>. QED BY <1>2, <3>2, <3>3
  <2>. QED BY <2>1, <2>2, <2>3, <2>4
<1>. QED BY <1>1, <1>2 DEF InHand, Says

\* What the database has no more is not about to be added.
LEMMA InHandGone ==
  ASSUME NEW c, NEW W, NEW s, NEW k, NEW on, InHand(c, W, s, k, None, on)
  PROVE  \A w \in W : w.op # "series"
BY DEF InHand, Says, Drop, DropSeriesItem

\* A service that is not loaded knows of nothing.
LEMMA NothingYet ==
  ASSUME Exchange, service # "loaded"
  PROVE  /\ ~HasAll /\ OneOnly(work)
         /\ \A c \in Collectors : /\ ItemsOf(work, c) = {} /\ series[c] = None /\ collectors[c] = "none"
                                  /\ Shape(c, {}, None, "none")
<1>1. work = {} /\ \A c \in Collectors : series[c] = None /\ collectors[c] = "none"
  BY DEF Exchange
<1>. QED BY <1>1, NoItems DEF HasAll, Shape

\* What is in a message that is on its way, when it was sent with nothing on its way.
LEMMA EditRegistries ==
  ASSUME TypeInv, Framed, Exchange, Registries, Orderly, Orderly', Calm',
         NEW kind \in {"ADD", "REMOVE"}, NEW content \in SUBSET Items, Edit(kind, content),
         \A d \in Collectors :
           \/ ItemsOf(content, d) = Says(d, dbSeries'[d], d \in dbActive')
           \/ ItemsOf(content, d) = {} /\ dbSeries'[d] = dbSeries[d] /\ (d \in dbActive' <=> d \in dbActive),
         dbProviders' \subseteq dbProviders \cup ProvidersOf(content),
         OneOnly(content),
         \A w \in content : w.op \in {"dropCollector", "dropSeries"} => w.id \in Collectors /\ dbSeries[w.id] # None
  PROVE  Registries'
<1>0. UNCHANGED <<phase, service, work, providers, series, collectors>> /\ (HasAll' <=> HasAll) /\ DbType
  BY TypeParts DEF Edit, state, registry, schedule, HasAll, Early
<1>1. Paired'
  BY <1>0 DEF Registries, Paired
<1>2. CASE phase = "closed"
  <2>0. service # "loaded" /\ Silent
    BY <1>2 DEF Edit, Calm, Exchange
  <2>1. Silent' = Silent /\ Coming' = Coming
    BY <1>2, EditComing
  <2>2. Coming' = {}
    BY <2>0, <2>1, SilentKind
  <2>3. /\ ~HasAll' /\ OneOnly(work') /\ OneOnly(Coming')
        /\ \A c \in Collectors : Unknown(ItemsOf(Coming', c), ItemsOf(work', c), series'[c], collectors'[c], dbSeries'[c])
    BY <1>0, <2>0, <2>2, NothingYet, NoItems DEF Unknown
  <2>. QED BY <1>1, <2>3 DEF Registries
<1>3. CASE phase # "closed"
  <2>1. Silent /\ Coming = {} /\ Coming' = content
    BY <1>3, EditComing, SilentKind
  <2>2. ASSUME NEW d \in Collectors
        PROVE  \/ InHand(d, ItemsOf(work, d), series[d], collectors[d], dbSeries[d], d \in dbActive)
               \/ ~HasAll /\ Unknown({}, ItemsOf(work, d), series[d], collectors[d], dbSeries[d])
    <3>1. dbSeries[d] \in Providers \cup {None} /\ (d \in dbActive) \in BOOLEAN
      BY <1>0 DEF DbType
    <3>2. Says(d, dbSeries[d], d \in dbActive) # {}
      BY <3>1, SaysItems
    <3>. QED BY <2>1, <3>2, NoItems DEF Registries, Agrees
  <2>3. ASSUME NEW d \in Collectors
        PROVE  \/ Agrees(d, ItemsOf(Coming', d), ItemsOf(work', d), series'[d], collectors'[d], dbSeries'[d], d \in dbActive')
               \/ ~HasAll' /\ Unknown(ItemsOf(Coming', d), ItemsOf(work', d), series'[d], collectors'[d], dbSeries'[d])
    <3>1. CASE ItemsOf(content, d) = Says(d, dbSeries'[d], d \in dbActive')
      BY <2>1, <3>1 DEF Agrees
    <3>2. CASE ItemsOf(content, d) = {} /\ dbSeries'[d] = dbSeries[d] /\ (d \in dbActive' <=> d \in dbActive)
      <4>1. (d \in dbActive') = (d \in dbActive)
        BY <3>2
      <4>2. ItemsOf(Coming', d) = {}
        BY <2>1, <3>2
      <4>3. CASE InHand(d, ItemsOf(work, d), series[d], collectors[d], dbSeries[d], d \in dbActive)
        <5>1. InHand(d, ItemsOf(work', d), series'[d], collectors'[d], dbSeries'[d], d \in dbActive')
          BY <1>0, <3>2, <4>1, <4>3
        <5>. QED BY <4>2, <5>1 DEF Agrees
      <4>4. CASE ~HasAll /\ Unknown({}, ItemsOf(work, d), series[d], collectors[d], dbSeries[d])
        BY <1>0, <3>2, <4>2, <4>4
      <4>. QED BY <2>2, <4>3, <4>4
    <3>. QED BY <3>1, <3>2
  <2>4. ASSUME HasAll
        PROVE  /\ dbProviders' \subseteq providers' \cup ProvidersOf(work') \cup ProvidersOf(Coming')
               /\ Sound' /\ DropsComing'
    <3>1. dbProviders \subseteq providers \cup ProvidersOf(work) /\ Sound
      BY <2>1, <2>4, NoItems DEF Registries, Harmless
    <3>2. Sound'
      BY <1>0, <3>1 DEF Sound
    <3>3. ASSUME NEW w \in content, w.op \in {"dropCollector", "dropSeries"}
          PROVE  Registers(w.id) /\ HasSeries(w.id)
      <4>1. w.id \in Collectors /\ dbSeries[w.id] # None
        BY <3>3
      <4>2. InHand(w.id, ItemsOf(work, w.id), series[w.id], collectors[w.id], dbSeries[w.id], w.id \in dbActive)
        BY <2>2, <2>4, <4>1
      <4>3. /\ DropCollectorItem(w.id) \notin ItemsOf(work, w.id)
            /\ collectors[w.id] # "none" \/ \E i \in ItemsOf(work, w.id) : i.op = "collector" /\ i.id = w.id
            /\ DropSeriesItem(w.id) \notin ItemsOf(work, w.id)
            /\ series[w.id] # None \/ \E i \in ItemsOf(work, w.id) : i.op = "series" /\ i.id = w.id
        BY <4>1, <4>2, InHandRegistered
      <4>4. Registers(w.id)
        BY <4>3 DEF ItemsOf, DropCollectorItem, Registers
      <4>5. HasSeries(w.id)
        BY <4>3 DEF ItemsOf, DropSeriesItem, HasSeries
      <4>. QED BY <4>4, <4>5
    <3>4. DropsComing'
      BY <1>0, <2>1, <3>3 DEF DropsComing, Registers, HasSeries
    <3>. QED BY <1>0, <2>1, <3>1, <3>2, <3>4
  <2>5. ~HasAll' => OneOnly(work') /\ OneOnly(Coming')
    BY <1>0, <2>1 DEF Registries
  <2>. QED BY <1>0, <1>1, <2>3, <2>4, <2>5 DEF Registries
<1>. QED BY <1>2, <1>3

\* The user edits the database and the service is told, or is not there.
LEMMA UserRegistries ==
  ASSUME TypeInv, Framed, Database, Exchange, Registries, Orderly, Orderly', Calm', User
  PROVE  Registries'
<1>0. DbType /\ phase \in Phases
  BY TypeParts DEF ClientType
<1>1. ASSUME NEW p \in Providers, AddProvider(p) PROVE Registries'
  <2>1. Edit("ADD", {ProviderItem(p)}) /\ dbProviders' = dbProviders \cup {p} /\ UNCHANGED <<dbSeries, dbActive>>
    BY <1>1 DEF AddProvider
  <2>2. /\ {ProviderItem(p)} \in SUBSET Items /\ ProvidersOf({ProviderItem(p)}) = {p} /\ OneOnly({ProviderItem(p)})
        /\ \A d : ItemsOf({ProviderItem(p)}, d) = {}
        /\ \A w \in {ProviderItem(p)} : w.op \notin {"dropCollector", "dropSeries"}
    BY ItemsAre DEF ProvidersOf, OneOnly, ItemsOf, ProviderItem
  <2>. QED BY <2>1, <2>2, EditRegistries
<1>2. ASSUME NEW p \in Providers, RemoveProvider(p) PROVE Registries'
  <2>1. Edit("REMOVE", {}) /\ dbProviders' \subseteq dbProviders /\ UNCHANGED <<dbSeries, dbActive>>
    BY <1>2 DEF RemoveProvider
  <2>. QED BY <2>1, NoItems, EditRegistries
<1>3. ASSUME NEW c \in Collectors, NEW kind \in {"ADD", "REMOVE"}, Edit(kind, Says(c, dbSeries'[c], c \in dbActive')),
             dbSeries'[c] \in Providers \cup {None}, dbProviders' = dbProviders,
             \A d \in Collectors : d # c => dbSeries'[d] = dbSeries[d] /\ (d \in dbActive' <=> d \in dbActive),
             dbSeries'[c] = None => dbSeries[c] # None
      PROVE  Registries'
  <2>1. PICK p \in Providers \cup {None} : p = dbSeries'[c]
    BY <1>3
  <2>a. PICK on \in BOOLEAN : on <=> c \in dbActive'
    OBVIOUS
  <2>2. on = (c \in dbActive')
    BY <2>a
  <2>. DEFINE M == Says(c, p, on)
  <2>3. M \subseteq Items /\ ItemsOf(M, c) = M /\ (\A d : d # c => ItemsOf(M, d) = {}) /\ ProvidersOf(M) = {}
    BY <2>1, <2>2, SaysItems
  <2>4. OneOnly(M) /\ \A w \in M : w.op \in {"dropCollector", "dropSeries"} => w.id = c /\ p = None
    BY DEF Says, OneOnly, Drop, SeriesItem, CollectorItem
  <2>. HIDE DEF M
  <2>5. M = Says(c, dbSeries'[c], c \in dbActive') /\ Edit(kind, M)
    BY <1>3, <2>1, <2>2 DEF M
  <2>6. \A d \in Collectors :
          \/ ItemsOf(M, d) = Says(d, dbSeries'[d], d \in dbActive')
          \/ ItemsOf(M, d) = {} /\ dbSeries'[d] = dbSeries[d] /\ (d \in dbActive' <=> d \in dbActive)
    BY <1>3, <2>3, <2>5
  <2>7. \A w \in M : w.op \in {"dropCollector", "dropSeries"} => w.id \in Collectors /\ dbSeries[w.id] # None
    BY <1>3, <2>1, <2>4
  <2>. QED BY <1>3, <2>3, <2>4, <2>5, <2>6, <2>7, EditRegistries
<1>4. ASSUME NEW c \in Collectors, RemoveCollector(c) PROVE Registries'
  <2>1. /\ dbSeries'[c] = None /\ dbSeries[c] # None /\ dbProviders' = dbProviders
        /\ \A d \in Collectors : d # c => dbSeries'[d] = dbSeries[d] /\ (d \in dbActive' <=> d \in dbActive)
    BY <1>0, <1>4 DEF RemoveCollector, DbType
  <2>2. Edit("REMOVE", Says(c, dbSeries'[c], c \in dbActive'))
    <3>1. Drop(c) = Says(c, dbSeries'[c], c \in dbActive')
      BY <2>1 DEF Says
    <3>. QED BY <1>4, <3>1 DEF RemoveCollector
  <2>. QED BY <2>1, <2>2, <1>3
<1>5. ASSUME NEW c \in Collectors, NEW p \in Providers, NEW on \in BOOLEAN, SaveCollector(c, p, on) PROVE Registries'
  <2>1. /\ dbSeries'[c] = p /\ p # None /\ dbProviders' = dbProviders /\ (c \in dbActive' <=> on)
        /\ \A d \in Collectors : d # c => dbSeries'[d] = dbSeries[d] /\ (d \in dbActive' <=> d \in dbActive)
    BY <1>0, <1>5, ServiceMessagesAssumption DEF SaveCollector, DbType
  <2>2. Edit("ADD", Says(c, dbSeries'[c], c \in dbActive'))
    <3>1. (c \in dbActive') = on
      BY <2>1
    <3>2. {SeriesItem(c, p), CollectorItem(c, on)} = Says(c, dbSeries'[c], c \in dbActive')
      BY <2>1, <3>1 DEF Says
    <3>. QED BY <1>5, <3>2 DEF SaveCollector
  <2>. QED BY <2>1, <2>2, <1>3
<1>6. ASSUME NEW what \in Requests, Request(what) PROVE Registries'
  <2>1. Send("STATUS", {}) /\ phase = "told"
    BY <1>6, SendBothDisorderly DEF Request
  <2>2. Coming' = {} /\ Coming = {} /\ ~Silent' /\ Silent
    BY <1>6, <2>1, ClientComing, SilentKind DEF Request, reader, Contents
  <2>3. UNCHANGED <<database, phase, service, work, providers, series, collectors>>
    BY <1>6 DEF Request, state, registry, schedule, database
  <2>4. HasAll' <=> HasAll
    BY <2>3 DEF HasAll, Early
  <2>. QED BY <2>2, <2>3, <2>4, RegistriesSame
<1>. QED BY <1>1, <1>2, <1>4, <1>5, <1>6 DEF User

\* A service that is not loaded and was sent nothing that it will not drop.
LEMMA NothingRegistries ==
  ASSUME work' = {}, \A c \in Collectors : series'[c] = None /\ collectors'[c] = "none",
         service' # "loaded", Coming' = {}
  PROVE  Registries'
<1>1. /\ ~HasAll' /\ OneOnly(work') /\ OneOnly(Coming')
      /\ \A c \in Collectors : Unknown(ItemsOf(Coming', c), ItemsOf(work', c), series'[c], collectors'[c], dbSeries'[c])
  BY NoItems DEF HasAll, Unknown
<1>2. Paired'
  BY NoItems DEF Paired, Shape
<1>. QED BY <1>1, <1>2 DEF Registries

\* The first ADD_DATA replaces all that is not gone, and of that nothing was in hand.
LEMMA SnapshotRegistries ==
  ASSUME TypeInv, Framed, Snapshot, Exchange, Registries, Orderly, Orderly', SendSnapshot
  PROVE  Registries'
<1>0. DbType /\ work \subseteq Items /\ snapshot \in Contents("ADD")
  BY TypeParts DEF ClientType, Contents
<1>1. Silent /\ Coming = {} /\ ~Silent' /\ Coming' = snapshot /\ ComingKind = "none"
  BY <1>0, ClientComing, SilentKind DEF SendSnapshot, reader
<1>2. /\ phase = "collectors" /\ phase' = "told" /\ Early
      /\ UNCHANGED <<database, service, work, providers, series, collectors>>
  BY DEF SendSnapshot, state, registry, schedule, Early
<1>3. service = "loaded" /\ HasAll' /\ ~HasAll
  BY <1>1, <1>2 DEF Exchange, HasAll, Early
<1>4. /\ \A c \in Collectors : ItemsOf(snapshot, c) =
           IF dbSeries[c] = None THEN {} ELSE Says(c, dbSeries[c], c \in dbActive)
      /\ ProvidersOf(snapshot) = dbProviders
      /\ \A w \in snapshot : w.op \notin {"dropCollector", "dropSeries"}
  BY <1>2, SnapshotItems
<1>5. \A c \in Collectors : Says(c, dbSeries[c], c \in dbActive) # {}
  <2>. SUFFICES ASSUME NEW c \in Collectors PROVE Says(c, dbSeries[c], c \in dbActive) # {}
    OBVIOUS
  <2>1. dbSeries[c] \in Providers \cup {None} /\ (c \in dbActive) \in BOOLEAN
    BY <1>0 DEF DbType
  <2>. QED BY <2>1, SaysItems
<1>6. Paired'
  BY <1>2 DEF Registries, Paired
<1>7. ASSUME NEW c \in Collectors
      PROVE  Agrees(c, ItemsOf(Coming', c), ItemsOf(work', c), series'[c], collectors'[c], dbSeries'[c], c \in dbActive')
  <2>1. ItemsOf(Coming', c) = IF dbSeries[c] = None THEN {} ELSE Says(c, dbSeries[c], c \in dbActive)
    BY <1>1, <1>4
  <2>2. CASE dbSeries[c] # None
    BY <1>2, <2>1, <2>2 DEF Agrees, database
  <2>3. CASE dbSeries[c] = None
    <3>1. InHand(c, ItemsOf(work, c), series[c], collectors[c], dbSeries[c], c \in dbActive)
      <4>1. CASE Unknown({}, ItemsOf(work, c), series[c], collectors[c], dbSeries[c])
        BY <2>3, <4>1 DEF Unknown, InHand, Wanted
      <4>2. CASE ~Unknown({}, ItemsOf(work, c), series[c], collectors[c], dbSeries[c])
        BY <1>1, <1>5, <4>2, NoItems DEF Registries, Agrees
      <4>. QED BY <4>1, <4>2
    <3>. QED BY <1>2, <2>1, <2>3, <3>1 DEF Agrees, database
  <2>. QED BY <2>2, <2>3
<1>8. Harmless'
  <2>1. OneOnly(work)
    BY <1>3 DEF Registries
  <2>2. ASSUME NEW w \in work, w.op # "provider" PROVE ItemsOf(snapshot, w.id) # {} \/ dbSeries[w.id] = None
    <3>1. w.id \in Collectors
      BY <1>0, <2>2, ItemShape
    <3>. QED BY <1>4, <1>5, <3>1
  <2>3. dbProviders' \subseteq ProvidersOf(Coming')
    BY <1>1, <1>2, <1>4 DEF database
  <2>. QED BY <1>1, <1>2, <1>4, <2>1, <2>2, <2>3 DEF Harmless, database
<1>9. dbProviders' \subseteq ProvidersOf(Coming')
  BY <1>1, <1>2, <1>4 DEF database
<1>. QED BY <1>3, <1>6, <1>7, <1>8, <1>9 DEF Registries

LEMMA ClientRegistries ==
  ASSUME TypeInv, Framed, Snapshot, Exchange, Registries, Orderly, Orderly', Connect \/ Client
  PROVE  Registries'
<1>0. answers \in Seq({"unloaded", "loaded"}) /\ {} \in Contents("STATUS") /\ {} \in Contents("UPDATE")
  BY TypeParts DEF ClientType, Contents
<1>1. CASE Connect
  <2>1. Coming' = {} /\ Coming = {} /\ Silent
    BY <1>0, <1>1, ClientComing, SilentKind DEF Connect, reader
  <2>2. UNCHANGED <<database, work, providers, series, collectors>> /\ (HasAll' <=> HasAll)
    BY <1>1 DEF Connect, state, registry, schedule, HasAll, Early
  <2>. QED BY <2>1, <2>2, RegistriesSame
<1>2. CASE OnStatus
  <2>1. answers # <<>> /\ UNCHANGED <<database, service, work, providers, series, collectors>> /\ ~Early
    BY <1>2 DEF OnStatus, state, registry, schedule, Exchange
  <2>2. CASE Head(answers) = "unloaded" /\ Send("UPDATE", {}) /\ phase' = "updated"
    <3>1. Coming' = {} /\ Coming = {} /\ Silent
      BY <1>0, <1>2, <2>2, ClientComing, SilentKind DEF OnStatus, reader
    <3>2. service # "loaded"
      <4>. SUFFICES ASSUME service = "loaded" PROVE FALSE
        OBVIOUS
      <4>1. answers \in Seq({"loaded"})
        BY DEF Exchange
      <4>2. Head(answers) = "loaded"
        BY <2>1, <4>1
      <4>. QED BY <2>2, <4>2
    <3>3. HasAll' <=> HasAll
      BY <2>1, <3>2 DEF HasAll
    <3>. QED BY <2>1, <3>1, <3>3, RegistriesSame
  <2>3. CASE phase' = (IF phase = "open" THEN "told" ELSE phase) /\ UNCHANGED <<sent, wire, trouble>>
    <3>1. Coming' = Coming /\ Silent' = Silent
      BY <1>2, <2>3, QuietComing DEF OnStatus
    <3>2. HasAll' <=> HasAll
      BY <2>1, <2>3 DEF HasAll, Early
    <3>. QED BY <2>1, <3>1, <3>2, RegistriesQuiet
  <2>. QED BY <1>2, <2>2, <2>3 DEF OnStatus
<1>3. CASE ReadSeries \/ ReadCollectors
  <2>1. UNCHANGED <<database, work, providers, series, collectors, wire, buffer>> /\ (HasAll' <=> HasAll)
    BY <1>3 DEF ReadSeries, ReadCollectors, state, registry, schedule, socket, HasAll, Early
  <2>. QED BY <2>1, QuietComing, RegistriesQuiet
<1>4. CASE SendSnapshot
  BY <1>4, SnapshotRegistries
<1>. QED BY <1>1, <1>2, <1>3, <1>4 DEF Client

\* What was on its way is in hand.
LEMMA DataRegistries ==
  ASSUME TypeInv, Database, Registries, service = "loaded", work = {}, work' = Coming, Coming' = {}, Coming \subseteq Items,
         UNCHANGED <<database, phase, service, providers, series, collectors>>
  PROVE  Registries'
<1>0. DbType /\ RegistryType /\ (HasAll' <=> HasAll)
  BY TypeParts DEF HasAll, Early
<1>1. ASSUME NEW c \in Collectors
      PROVE  /\ Shape(c, ItemsOf(work', c), series'[c], collectors'[c])
             /\ \/ Agrees(c, ItemsOf(Coming', c), ItemsOf(work', c), series'[c], collectors'[c], dbSeries'[c], c \in dbActive')
                \/ ~HasAll' /\ Unknown(ItemsOf(Coming', c), ItemsOf(work', c), series'[c], collectors'[c], dbSeries'[c])
  <2>1. /\ Shape(c, {}, series[c], collectors[c]) /\ ItemsOf(Coming', c) = {} /\ ItemsOf(work', c) = ItemsOf(Coming, c)
        /\ \/ Agrees(c, ItemsOf(Coming, c), {}, series[c], collectors[c], dbSeries[c], c \in dbActive)
           \/ ~HasAll /\ Unknown(ItemsOf(Coming, c), {}, series[c], collectors[c], dbSeries[c])
    BY NoItems DEF Registries, Paired
  <2>2. dbSeries[c] \in Providers \cup {None} /\ (c \in dbActive) \in BOOLEAN
    BY <1>0 DEF DbType
  <2>3. CASE ItemsOf(Coming, c) = Says(c, dbSeries[c], c \in dbActive)
    <3>1. /\ Shape(c, ItemsOf(Coming, c), series[c], collectors[c])
          /\ InHand(c, ItemsOf(Coming, c), series[c], collectors[c], dbSeries[c], c \in dbActive)
      <4>1. Shape(c, {}, series[c], collectors[c])
        BY <2>1
      <4>2. /\ Shape(c, Says(c, dbSeries[c], c \in dbActive), series[c], collectors[c])
            /\ InHand(c, Says(c, dbSeries[c], c \in dbActive), series[c], collectors[c], dbSeries[c], c \in dbActive)
        BY <4>1, <2>2, WholeInHand, Zenon
      <4>. QED BY <4>2, <2>3
    <3>. QED BY <2>1, <3>1 DEF Agrees, database
  <2>4. CASE ItemsOf(Coming, c) = {} /\ InHand(c, {}, series[c], collectors[c], dbSeries[c], c \in dbActive)
    BY <2>1, <2>4 DEF Agrees, database
  <2>5. CASE ~HasAll /\ Unknown(ItemsOf(Coming, c), {}, series[c], collectors[c], dbSeries[c])
    BY <1>0, <2>1, <2>5 DEF Unknown, database
  <2>. QED BY <2>1, <2>3, <2>4, <2>5 DEF Agrees
<1>2. ~HasAll => OneOnly(work') /\ OneOnly(Coming')
  BY NoItems DEF Registries
<1>3. ASSUME HasAll
      PROVE  /\ dbProviders' \subseteq providers' \cup ProvidersOf(work') \cup ProvidersOf(Coming')
             /\ Sound' /\ DropsComing'
  <2>1. dbProviders \subseteq providers \cup ProvidersOf(Coming)
    BY <1>3, NoItems DEF Registries
  <2>2. \A w \in Coming : (w.op = "dropCollector" => collectors[w.id] # "none") /\ (w.op = "dropSeries" => series[w.id] # None)
    BY <1>3 DEF Registries, DropsComing, Registers, HasSeries, Harmless
  <2>3. ASSUME NEW w \in Coming, w.op = "series" PROVE w.of \in providers \cup ProvidersOf(Coming)
    <3>2. w.id \in Collectors /\ w \in ItemsOf(Coming, w.id)
      BY <2>3, ItemShape DEF ItemsOf
    <3>3. w \in Says(w.id, dbSeries[w.id], w.id \in dbActive)
      BY <1>3, <3>2 DEF Registries, Agrees
    <3>4. dbSeries[w.id] # None /\ w.of = dbSeries[w.id]
      BY <2>3, <3>3 DEF Says, Drop, SeriesItem, CollectorItem
    <3>. QED BY <2>1, <3>2, <3>4 DEF Database
  <2>4. Sound'
    BY <2>2, <2>3 DEF Sound
  <2>5. DropsComing'
    BY DEF DropsComing
  <2>. QED BY <2>1, <2>4, <2>5 DEF database
<1>. QED BY <1>0, <1>1, <1>2, <1>3 DEF Registries, Paired

\* Only ADD_DATA and REMOVE_DATA say something.
LEMMA ComingItems ==
  ASSUME TypeInv, Framed, Orderly
  PROVE  Coming \subseteq Items /\ (ComingKind \notin {"ADD", "REMOVE"} => Coming = {})
<1>1. CASE Silent
  BY <1>1, SilentKind
<1>2. CASE ~Silent
  <2>1. Frames(wire, buffer, blockSize, sent, ComingKind, Coming)
    BY <1>2 DEF Framed
  <2>2. ComingKind \notin {"ADD", "REMOVE"} => Coming = {}
    BY <2>1 DEF Frames
  <2>3. Coming \in Contents(ComingKind)
    <3>1. Stream
      BY TypeParts
    <3>2. CASE buffer # <<>>
      <4>1. 1 \in 1..Len(buffer) /\ Stretch(buffer, sent)
        BY <2>1, <3>1, <3>2 DEF Stream, Frames
      <4>2. Sane(buffer[1], sent)
        BY <4>1 DEF Stretch
      <4>. QED BY <1>2, <3>2, <4>2 DEF Coming, ComingKind, FirstOf, Sane
    <3>3. CASE buffer = <<>>
      <4>1. 1 \in 1..Len(wire) /\ Stretch(wire, sent)
        BY <1>2, <2>1, <3>1, <3>3 DEF Stream, Frames, Silent
      <4>2. Sane(wire[1], sent)
        BY <4>1 DEF Stretch
      <4>. QED BY <1>2, <3>3, <4>2 DEF Coming, ComingKind, FirstOf, Sane
    <3>. QED BY <3>2, <3>3
  <2>. QED BY <2>2, <2>3 DEF Contents
<1>. QED BY <1>1, <1>2

\* The order of the items of a message.
LEMMA TakesOrder ==
  ASSUME NEW w, NEW op, Takes(w, op), NEW v \in work
  PROVE  /\ op = "series" => v.op \notin {"provider", "dropCollector"}
         /\ op = "collector" => v.op \notin {"provider", "dropCollector", "series", "dropSeries"}
         /\ op = "dropSeries" => v.op \notin {"provider", "dropCollector"}
BY DEF Takes, Order

\* An item is done.
LEMMA DonePaired ==
  ASSUME TypeInv, Paired, NEW w \in work, w.op # "provider",
         work' = work \ {w},
         \A d \in Collectors : d # w.id => series'[d] = series[d] /\ collectors'[d] = collectors[d],
         Shape(w.id, ItemsOf(work, w.id) \ {w}, series'[w.id], collectors'[w.id])
  PROVE  /\ Paired'
         /\ w \in ItemsOf(work, w.id) /\ ItemsOf(work', w.id) = ItemsOf(work, w.id) \ {w}
         /\ \A c : c # w.id => ItemsOf(work', c) = ItemsOf(work, c)
         /\ ProvidersOf(work') = ProvidersOf(work)
<1>1. /\ w \in ItemsOf(work, w.id) /\ ItemsOf(work', w.id) = ItemsOf(work, w.id) \ {w}
      /\ \A c : c # w.id => ItemsOf(work', c) = ItemsOf(work, c)
      /\ ProvidersOf(work') = ProvidersOf(work)
  <2>1. work \in SUBSET Items
    BY TypeParts
  <2>2. /\ w \in ItemsOf(work, w.id) /\ ItemsOf(work \ {w}, w.id) = ItemsOf(work, w.id) \ {w}
        /\ \A c : c # w.id => ItemsOf(work \ {w}, c) = ItemsOf(work, c)
        /\ ProvidersOf(work \ {w}) = ProvidersOf(work)
    BY <2>1, ItemsRest
  <2>. QED BY <2>2
<1>2. ASSUME NEW c \in Collectors PROVE Shape(c, ItemsOf(work', c), series'[c], collectors'[c])
  <2>1. CASE c # w.id
    BY <1>1, <2>1 DEF Paired
  <2>2. CASE c = w.id
    BY <1>1, <2>2
  <2>. QED BY <2>1, <2>2
<1>. QED BY <1>1, <1>2 DEF Paired

LEMMA DoneRegistries ==
  ASSUME TypeInv, Registries, NEW w \in work, w.op # "provider", w.id \in Collectors,
         UNCHANGED <<database, providers>>, Coming' = Coming, Silent' = Silent, HasAll' <=> HasAll,
         work' = work \ {w},
         \A d \in Collectors : d # w.id => series'[d] = series[d] /\ collectors'[d] = collectors[d],
         Shape(w.id, ItemsOf(work, w.id) \ {w}, series'[w.id], collectors'[w.id]),
         \A p, on : InHand(w.id, ItemsOf(work, w.id), series[w.id], collectors[w.id], p, on) =>
                      InHand(w.id, ItemsOf(work, w.id) \ {w}, series'[w.id], collectors'[w.id], p, on),
         Sound /\ DropsComing => Sound' /\ DropsComing'
  PROVE  Registries'
<1>0. Paired
  BY DEF Registries
<1>1. /\ Paired'
      /\ w \in ItemsOf(work, w.id) /\ ItemsOf(work', w.id) = ItemsOf(work, w.id) \ {w}
      /\ \A c : c # w.id => ItemsOf(work', c) = ItemsOf(work, c)
      /\ ProvidersOf(work') = ProvidersOf(work)
  BY <1>0, DonePaired
<1>2. ASSUME NEW c \in Collectors
      PROVE  \/ Agrees(c, ItemsOf(Coming', c), ItemsOf(work', c), series'[c], collectors'[c], dbSeries'[c], c \in dbActive')
             \/ ~HasAll' /\ Unknown(ItemsOf(Coming', c), ItemsOf(work', c), series'[c], collectors'[c], dbSeries'[c])
  <2>1. CASE c # w.id
    <3>1. \/ Agrees(c, ItemsOf(Coming, c), ItemsOf(work, c), series[c], collectors[c], dbSeries[c], c \in dbActive)
          \/ ~HasAll /\ Unknown(ItemsOf(Coming, c), ItemsOf(work, c), series[c], collectors[c], dbSeries[c])
      BY DEF Registries
    <3>. QED BY <1>1, <2>1, <3>1 DEF database
  <2>2. CASE c = w.id
    <3>1. Agrees(c, ItemsOf(Coming, c), ItemsOf(work, c), series[c], collectors[c], dbSeries[c], c \in dbActive)
      BY <1>1, <2>2 DEF Registries, Unknown
    <3>. QED BY <1>1, <2>2, <3>1 DEF Agrees, database
  <2>. QED BY <2>1, <2>2
<1>3. Harmless => Harmless'
  BY DEF Harmless, OneOnly, database
<1>4. ~HasAll' => OneOnly(work') /\ OneOnly(Coming')
  BY DEF Registries, OneOnly
<1>5. HasAll' => dbProviders' \subseteq providers' \cup ProvidersOf(work') \cup ProvidersOf(Coming')
  BY <1>1 DEF Registries, database
<1>. QED BY <1>1, <1>2, <1>3, <1>4, <1>5 DEF Registries

\* What a handler does with an item of a collector: it is done, or, when it was not sound, it
\* ends the message.
DoneItem(w) ==
  /\ work' = work \ {w}
  /\ \A d \in Collectors : d # w.id => series'[d] = series[d] /\ collectors'[d] = collectors[d]
  /\ Shape(w.id, ItemsOf(work, w.id) \ {w}, series'[w.id], collectors'[w.id])
  /\ \A p, on : InHand(w.id, ItemsOf(work, w.id), series[w.id], collectors[w.id], p, on) =>
                  InHand(w.id, ItemsOf(work, w.id) \ {w}, series'[w.id], collectors'[w.id], p, on)
  /\ Sound => Sound'
  /\ Keeps

ThrownItem(w) ==
  /\ work' = {} /\ ~Sound /\ collectors' = collectors
  /\ series'[w.id] = None /\ \A d \in Collectors : d # w.id => series'[d] = series[d]
  /\ w.op = "series" \/ collectors[w.id] = "none"

\* An item fails: nothing else was in hand, and what was is on its way again, or gone, or the
\* service has still to be sent all data.
LEMMA ThrowRegistries ==
  ASSUME TypeInv, Registries, NEW w \in work, w.op # "provider", w.id \in Collectors,
         UNCHANGED <<database, providers>>, Coming' = Coming, Silent' = Silent, HasAll' <=> HasAll,
         ThrownItem(w)
  PROVE  Registries'
<1>0. /\ work' = {} /\ ~Sound /\ collectors' = collectors
      /\ series'[w.id] = None /\ \A d \in Collectors : d # w.id => series'[d] = series[d]
      /\ w.op = "series" \/ collectors[w.id] = "none"
  BY DEF ThrownItem
<1>1. w \in ItemsOf(work, w.id)
  BY DEF ItemsOf
<1>2. OneOnly(work) /\ (HasAll => Harmless)
  BY <1>0 DEF Registries, Harmless
<1>3. \A c : c # w.id => ItemsOf(work, c) = {}
  BY <1>2 DEF OneOnly, ItemsOf
<1>4. ASSUME NEW c \in Collectors
      PROVE  /\ Shape(c, ItemsOf(work', c), series'[c], collectors'[c])
             /\ \/ Agrees(c, ItemsOf(Coming', c), ItemsOf(work', c), series'[c], collectors'[c], dbSeries'[c], c \in dbActive')
                \/ ~HasAll' /\ Unknown(ItemsOf(Coming', c), ItemsOf(work', c), series'[c], collectors'[c], dbSeries'[c])
  <2>0. ItemsOf(work', c) = {}
    BY <1>0, NoItems
  <2>1. \/ Agrees(c, ItemsOf(Coming, c), ItemsOf(work, c), series[c], collectors[c], dbSeries[c], c \in dbActive)
        \/ ~HasAll /\ Unknown(ItemsOf(Coming, c), ItemsOf(work, c), series[c], collectors[c], dbSeries[c])
    BY DEF Registries
  <2>2. CASE c # w.id
    <3>1. Shape(c, ItemsOf(work, c), series[c], collectors[c]) /\ ItemsOf(work, c) = {}
      BY <1>3, <2>2 DEF Registries, Paired
    <3>. QED BY <1>0, <2>0, <2>1, <2>2, <3>1 DEF database
  <2>3. CASE c = w.id
    <3>1. series'[c] = None /\ Shape(c, {}, None, collectors'[c])
      BY <1>0, <2>3 DEF Shape
    <3>2. CASE ItemsOf(Coming, c) = Says(c, dbSeries[c], c \in dbActive)
      BY <2>0, <3>1, <3>2 DEF Agrees, database
    <3>3. CASE ItemsOf(Coming, c) = {} /\ ItemsOf(Coming, c) # Says(c, dbSeries[c], c \in dbActive)
      <4>1. InHand(c, ItemsOf(work, c), series[c], collectors[c], dbSeries[c], c \in dbActive)
        BY <1>1, <2>1, <2>3, <3>3 DEF Agrees, Unknown
      <4>2. dbSeries[c] = None => collectors[c] = "none"
        <5>. SUFFICES ASSUME dbSeries[c] = None PROVE w.op # "series"
          BY <1>0, <2>3
        <5>1. InHand(c, ItemsOf(work, c), series[c], collectors[c], None, c \in dbActive)
          BY <4>1
        <5>. QED BY <1>1, <2>3, <5>1, InHandGone
      <4>3. CASE HasAll
        <5>1. dbSeries[c] = None /\ collectors[c] = "none"
          BY <1>2, <2>3, <3>3, <4>2, <4>3 DEF Harmless
        <5>2. InHand(c, {}, None, "none", None, c \in dbActive)
          BY DEF InHand, Wanted
        <5>. QED BY <1>0, <2>0, <3>1, <3>3, <5>1, <5>2 DEF Agrees, database
      <4>4. CASE ~HasAll
        BY <1>0, <2>0, <3>1, <3>3, <4>2, <4>4 DEF Unknown, database
      <4>. QED BY <4>3, <4>4
    <3>. QED BY <2>1, <3>2, <3>3 DEF Agrees, Unknown
  <2>. QED BY <2>2, <2>3
<1>5. ~HasAll' => OneOnly(work') /\ OneOnly(Coming')
  BY <1>0, NoItems DEF Registries
<1>6. HasAll => dbProviders' \subseteq providers' \cup ProvidersOf(work') \cup ProvidersOf(Coming')
  BY <1>2 DEF Harmless, database
<1>7. Sound'
  BY <1>0 DEF Sound
<1>8. HasAll => DropsComing'
  BY <1>2 DEF Harmless, DropsComing
<1>. QED BY <1>4, <1>5, <1>6, <1>7, <1>8 DEF Registries, Paired

LEMMA HandleItem ==
  ASSUME TypeInv, Paired, NEW w \in work, DoSeries(w) \/ DoCollector(w) \/ DropCollector(w) \/ DropSeries(w)
  PROVE  /\ w.op # "provider" /\ w.id \in Collectors /\ UNCHANGED providers
         /\ DoneItem(w) \/ ThrownItem(w)
<1>0. work \subseteq Items /\ RegistryType
  BY TypeParts
<1>1. w.op # "provider" /\ UNCHANGED providers
  BY DEF DoSeries, DoCollector, DropCollector, DropSeries, Takes
<1>2. w.id \in Collectors /\ w \in ItemsOf(work, w.id) /\ ProvidersOf(work \ {w}) = ProvidersOf(work)
  BY <1>0, <1>1, ItemShape, ItemsRest
<1>3. Shape(w.id, ItemsOf(work, w.id), series[w.id], collectors[w.id])
  BY <1>2 DEF Paired
<1>4. \A c : \A v \in ItemsOf(work, c) : v \in work
  BY DEF ItemsOf
<1>. DEFINE W == ItemsOf(work, w.id)
            s == series[w.id]
            k == collectors[w.id]
<1>5. Shape(w.id, W, s, k) /\ w \in W
  BY <1>2, <1>3
<1>. HIDE DEF W, s, k
<1>8. CASE DoSeries(w)
  <2>1. w.op = "series" /\ UNCHANGED collectors
    BY <1>8 DEF DoSeries, Takes
  <2>2. /\ w.of \in Providers
        /\ Shape(w.id, W \ {w}, w.of, k)
        /\ \A p, on : InHand(w.id, W, s, k, p, on) => InHand(w.id, W \ {w}, w.of, k, p, on)
    BY <1>5, <2>1, TakeSeries
  <2>3. ProvidersOf(work) = {}
    BY <1>8, TakesOrder DEF DoSeries, ProvidersOf
  <2>4. CASE w.of \in providers /\ series' = [series EXCEPT ![w.id] = w.of] /\ Done(w)
    <3>1. work' = work \ {w} /\ series'[w.id] = w.of /\ \A d \in Collectors : d # w.id => series'[d] = series[d]
      BY <1>0, <1>2, <2>4 DEF Done, RegistryType
    <3>2. Sound => Sound'
      <4>1. w.of # None
        BY <2>2, ServiceMessagesAssumption
      <4>2. \A v \in work' : v.op = "dropSeries" => v.id \in Collectors
        BY <1>0, <3>1, ItemShape
      <4>. QED BY <1>1, <1>2, <2>1, <3>1, <4>1, <4>2 DEF Sound
    <3>3. Keeps
      <4>. SUFFICES ASSUME NEW c \in Collectors
                    PROVE  (Registers(c) => Registers(c)') /\ (HasSeries(c) => HasSeries(c)')
        BY DEF Keeps
      <4>1. Registers(c) => Registers(c)'
        BY <2>1, <3>1 DEF Registers
      <4>2. HasSeries(c) => HasSeries(c)'
        <5>1. CASE c = w.id
          BY <2>2, <3>1, <5>1, ServiceMessagesAssumption DEF HasSeries
        <5>2. CASE c # w.id
          BY <3>1, <5>2 DEF HasSeries
        <5>. QED BY <5>1, <5>2
      <4>. QED BY <4>1, <4>2
    <3>. QED BY <1>1, <1>2, <2>1, <2>2, <3>1, <3>2, <3>3 DEF DoneItem, W, s, k
  <2>5. CASE w.of \notin providers
    <3>1. work' = {} /\ series' = [series EXCEPT ![w.id] = None]
      BY <1>8, <2>5 DEF DoSeries
    <3>2. series'[w.id] = None /\ \A d \in Collectors : d # w.id => series'[d] = series[d]
      BY <1>0, <1>2, <3>1 DEF RegistryType
    <3>3. ~Sound
      BY <2>1, <2>3, <2>5 DEF Sound
    <3>. QED BY <1>1, <1>2, <2>1, <3>1, <3>2, <3>3 DEF ThrownItem
  <2>. QED BY <1>8, <2>4, <2>5 DEF DoSeries
<1>9. CASE DoCollector(w)
  <2>1. w.op = "collector" /\ UNCHANGED series /\ work' = work \ {w}
    BY <1>9 DEF DoCollector, Takes
  <2>2. \A v \in W : v.op # "series"
    BY <1>4, <1>9, TakesOrder DEF DoCollector, W
  <2>. DEFINE l == IF w.active THEN "on" ELSE "off"
  <2>3. /\ W \ {w} = {} /\ Shape(w.id, {}, s, l)
        /\ \A p, on : InHand(w.id, W, s, k, p, on) => InHand(w.id, {}, s, l, p, on)
    BY <1>5, <2>1, <2>2, TakeCollector
  <2>4. l # "none"
    OBVIOUS
  <2>5. collectors'[w.id] = l /\ \A d \in Collectors : d # w.id => collectors'[d] = collectors[d]
    BY <1>0, <1>2, <1>9 DEF DoCollector, RegistryType
  <2>. HIDE DEF l
  <2>6. Sound => Sound'
    <3>1. \A v \in work' : v.op \notin {"dropCollector", "dropSeries"}
      BY <1>9, <2>1, TakesOrder DEF DoCollector
    <3>. QED BY <1>1, <1>2, <2>1, <3>1 DEF Sound
  <2>7. Keeps
    <3>. SUFFICES ASSUME NEW c \in Collectors
                  PROVE  (Registers(c) => Registers(c)') /\ (HasSeries(c) => HasSeries(c)')
      BY DEF Keeps
    <3>1. Registers(c) => Registers(c)'
      <4>1. CASE c = w.id
        BY <2>1, <2>4, <2>5, <4>1 DEF Registers
      <4>2. CASE c # w.id
        BY <2>1, <2>5, <4>2 DEF Registers
      <4>. QED BY <4>1, <4>2
    <3>2. HasSeries(c) => HasSeries(c)'
      BY <2>1 DEF HasSeries
    <3>. QED BY <3>1, <3>2
  <2>. QED BY <1>1, <1>2, <2>1, <2>3, <2>5, <2>6, <2>7 DEF DoneItem, W, s, k
<1>10. CASE DropCollector(w)
  <2>1. w.op = "dropCollector" /\ UNCHANGED series
    BY <1>10 DEF DropCollector, Takes
  <2>2. /\ k = "none" => s = None
        /\ Shape(w.id, W \ {w}, s, "none")
        /\ \A p, on : InHand(w.id, W, s, k, p, on) => InHand(w.id, W \ {w}, s, "none", p, on)
    BY <1>5, <2>1, TakeDropCollector
  <2>3. CASE k # "none" /\ collectors' = [collectors EXCEPT ![w.id] = "none"] /\ Done(w)
    <3>1. /\ work' = work \ {w} /\ collectors'[w.id] = "none"
          /\ \A d \in Collectors : d # w.id => collectors'[d] = collectors[d]
      BY <1>0, <1>2, <2>3 DEF Done, RegistryType
    <3>2. w = DropCollectorItem(w.id)
      BY <1>0, <2>1, ItemShape
    <3>3. Sound => Sound'
      <4>1. \A v \in work' : v.op = "dropCollector" => v.id \in Collectors /\ v.id # w.id
        BY <1>0, <2>1, <3>1, <3>2, ItemShape
      <4>. QED BY <1>1, <1>2, <2>1, <3>1, <4>1 DEF Sound
    <3>4. Keeps
      <4>. SUFFICES ASSUME NEW c \in Collectors
                    PROVE  (Registers(c) => Registers(c)') /\ (HasSeries(c) => HasSeries(c)')
        BY DEF Keeps
      <4>1. Registers(c) => c # w.id
        BY <3>2 DEF Registers
      <4>2. \A i \in work : i.op \in {"collector", "series"} => i \in work'
        BY <2>1, <3>1
      <4>3. Registers(c) => Registers(c)'
        BY <3>1, <4>1, <4>2 DEF Registers
      <4>4. HasSeries(c) => HasSeries(c)'
        BY <2>1, <3>1, <4>2 DEF HasSeries
      <4>. QED BY <4>3, <4>4
    <3>5. /\ Shape(w.id, W \ {w}, series'[w.id], collectors'[w.id])
          /\ \A p, on : InHand(w.id, W, s, k, p, on) => InHand(w.id, W \ {w}, series'[w.id], collectors'[w.id], p, on)
      BY <2>1, <2>2, <2>3, <3>1 DEF s
    <3>6. \A d \in Collectors : d # w.id => series'[d] = series[d] /\ collectors'[d] = collectors[d]
      BY <2>1, <3>1
    <3>. QED BY <1>1, <1>2, <3>1, <3>3, <3>4, <3>5, <3>6 DEF DoneItem, W, s, k
  <2>4. CASE k = "none" /\ Throws /\ UNCHANGED collectors
    <3>1. ~Sound /\ work' = {}
      BY <2>1, <2>4 DEF Sound, Throws, k
    <3>2. series[w.id] = None /\ collectors[w.id] = "none"
      BY <2>2, <2>4 DEF s, k
    <3>. QED BY <1>1, <1>2, <2>1, <2>4, <3>1, <3>2 DEF ThrownItem
  <2>. QED BY <1>10, <2>3, <2>4 DEF DropCollector, k
<1>11. CASE DropSeries(w)
  <2>1. w.op = "dropSeries" /\ UNCHANGED collectors
    BY <1>11 DEF DropSeries, Takes, schedule
  <2>2. \A v \in W : v.op # "dropCollector"
    BY <1>4, <1>11, TakesOrder DEF DropSeries, W
  <2>3. /\ W \ {w} = {} /\ k = "none"
        /\ Shape(w.id, {}, None, k)
        /\ \A p, on : InHand(w.id, W, s, k, p, on) => InHand(w.id, {}, None, k, p, on)
    BY <1>5, <2>1, <2>2, TakeDropSeries
  <2>4. CASE s # None /\ series' = [series EXCEPT ![w.id] = None] /\ Done(w)
    <3>1. /\ work' = work \ {w} /\ series'[w.id] = None
          /\ \A d \in Collectors : d # w.id => series'[d] = series[d]
      BY <1>0, <1>2, <2>4 DEF Done, RegistryType
    <3>2. w = DropSeriesItem(w.id)
      BY <1>0, <2>1, ItemShape
    <3>3. Sound => Sound'
      <4>1. \A v \in work' : v.op = "dropSeries" => v.id \in Collectors /\ v.id # w.id
        BY <1>0, <2>1, <3>1, <3>2, ItemShape
      <4>. QED BY <1>1, <1>2, <2>1, <3>1, <4>1 DEF Sound
    <3>4. Keeps
      <4>. SUFFICES ASSUME NEW c \in Collectors
                    PROVE  (Registers(c) => Registers(c)') /\ (HasSeries(c) => HasSeries(c)')
        BY DEF Keeps
      <4>1. HasSeries(c) => c # w.id
        BY <3>2 DEF HasSeries
      <4>2. \A i \in work : i.op \in {"collector", "series"} => i \in work'
        BY <2>1, <3>1
      <4>3. Registers(c) => Registers(c)'
        BY <2>1, <3>1, <4>2 DEF Registers
      <4>4. HasSeries(c) => HasSeries(c)'
        BY <3>1, <4>1, <4>2 DEF HasSeries
      <4>. QED BY <4>3, <4>4
    <3>. QED BY <1>1, <1>2, <2>1, <2>3, <3>1, <3>3, <3>4 DEF DoneItem, W, s, k
  <2>5. CASE s = None /\ Throws /\ UNCHANGED series
    <3>1. ~Sound /\ work' = {}
      BY <2>1, <2>5 DEF Sound, Throws, s
    <3>. QED BY <1>1, <1>2, <2>1, <2>3, <2>5, <3>1 DEF ThrownItem, s, k
  <2>. QED BY <1>11, <2>4, <2>5 DEF DropSeries, s
<1>. QED BY <1>8, <1>9, <1>10, <1>11

LEMMA HandleProvider ==
  ASSUME TypeInv, NEW w \in work, DoProvider(w)
  PROVE  /\ w.op = "provider" /\ providers' = providers \cup {w.id} /\ work' = work \ {w} /\ UNCHANGED <<series, collectors>>
         /\ (\A c : ItemsOf(work', c) = ItemsOf(work, c)) /\ ProvidersOf(work) = ProvidersOf(work') \cup {w.id}
         /\ Paired => Paired'
         /\ Sound => Sound'
         /\ Keeps
<1>1. w.op = "provider" /\ providers' = providers \cup {w.id} /\ work' = work \ {w} /\ UNCHANGED <<series, collectors>>
  BY DEF DoProvider, Takes, Done
<1>2. (\A c : ItemsOf(work', c) = ItemsOf(work, c)) /\ ProvidersOf(work) = ProvidersOf(work') \cup {w.id}
  <2>1. work \in SUBSET Items
    BY TypeParts
  <2>2. (\A c : ItemsOf(work \ {w}, c) = ItemsOf(work, c)) /\ ProvidersOf(work) = ProvidersOf(work \ {w}) \cup {w.id}
    BY <1>1, <2>1, ItemsRest
  <2>. QED BY <1>1, <2>2
<1>3. Paired => Paired'
  BY <1>1, <1>2 DEF Paired
<1>4. Sound => Sound'
  BY <1>1, <1>2 DEF Sound
<1>5. Keeps
  BY <1>1 DEF Keeps, Registers, HasSeries
<1>. QED BY <1>1, <1>2, <1>3, <1>4, <1>5

LEMMA HandleRegistries ==
  ASSUME TypeInv, Framed, Orderly, Registries, Handle
  PROVE  Registries'
<1>1. PICK w \in work : DoProvider(w) \/ DoSeries(w) \/ DoCollector(w) \/ DropCollector(w) \/ DropSeries(w)
  BY DEF Handle
<1>2. UNCHANGED <<database, phase, service, wire, buffer>>
  BY <1>1 DEF DoProvider, DoSeries, DoCollector, DropCollector, DropSeries, client, socket, state, database
<1>3. Coming' = Coming /\ Silent' = Silent /\ (HasAll' <=> HasAll)
  BY <1>2, QuietComing DEF HasAll, Early
<1>4. \A v \in Coming : v.op \in {"dropCollector", "dropSeries"} => v.id \in Collectors
  BY ComingItems, ItemShape
<1>5. Keeps => (DropsComing => DropsComing')
  BY <1>3, <1>4 DEF DropsComing, Keeps
<1>6. Paired
  BY DEF Registries
<1>7. CASE DoProvider(w)
  <2>1. w.op = "provider" /\ providers' = providers \cup {w.id} /\ work' = work \ {w} /\ UNCHANGED <<series, collectors>>
    BY <1>7, HandleProvider
  <2>2. /\ \A c : ItemsOf(work', c) = ItemsOf(work, c)
        /\ ProvidersOf(work) = ProvidersOf(work') \cup {w.id}
        /\ Paired' /\ (Sound => Sound') /\ (DropsComing => DropsComing')
    BY <1>5, <1>6, <1>7, HandleProvider
  <2>3. ASSUME NEW c \in Collectors
        PROVE  \/ Agrees(c, ItemsOf(Coming', c), ItemsOf(work', c), series'[c], collectors'[c], dbSeries'[c], c \in dbActive')
               \/ ~HasAll' /\ Unknown(ItemsOf(Coming', c), ItemsOf(work', c), series'[c], collectors'[c], dbSeries'[c])
    BY <1>2, <1>3, <2>1, <2>2 DEF Registries, database
  <2>4. Harmless => Harmless'
    BY <1>2, <1>3, <2>1 DEF Harmless, OneOnly, database
  <2>5. /\ ~HasAll' => OneOnly(work') /\ OneOnly(Coming')
        /\ HasAll' => dbProviders' \subseteq providers' \cup ProvidersOf(work') \cup ProvidersOf(Coming')
    BY <1>2, <1>3, <2>1, <2>2 DEF Registries, OneOnly, database
  <2>. QED BY <1>3, <2>2, <2>3, <2>4, <2>5 DEF Registries
<1>8. CASE DoSeries(w) \/ DoCollector(w) \/ DropCollector(w) \/ DropSeries(w)
  <2>1. /\ w.op # "provider" /\ w.id \in Collectors /\ UNCHANGED providers
        /\ DoneItem(w) \/ ThrownItem(w)
    BY <1>6, <1>8, HandleItem
  <2>2. CASE DoneItem(w)
    <3>1. Sound /\ DropsComing => Sound' /\ DropsComing'
      BY <1>5, <2>2 DEF DoneItem
    <3>. QED BY <1>2, <1>3, <2>1, <2>2, <3>1, DoneRegistries DEF DoneItem
  <2>3. CASE ThrownItem(w)
    BY <1>2, <1>3, <2>1, <2>3, ThrowRegistries
  <2>. QED BY <2>1, <2>2, <2>3
<1>. QED BY <1>1, <1>7, <1>8

LEMMA ReadRegistries ==
  ASSUME TypeInv, Framed, Database, Exchange, Registries, Orderly, ~Fresh, ReadMessage
  PROVE  Registries'
<1>0. ASSUME AtHand
      PROVE  /\ Recognized /\ ~Silent /\ Head(Behind).content = Coming /\ Head(Behind).kind = ComingKind
             /\ ComingKind \in {"STATUS", "UPDATE", "ADD", "REMOVE"} /\ work = {}
             /\ Coming \subseteq Items /\ (ComingKind \notin {"ADD", "REMOVE"} => Coming = {})
  BY <1>0, AtHandFramed, ComingItems DEF AtHand, CanRead
<1>1. ASSUME Complete, UNCHANGED <<wire, sent>>, last' = Head(Behind).n PROVE Silent' /\ Coming' = {}
  BY <1>1, CompleteComing
<1>2. CASE ReadPart
  <2>1. UNCHANGED <<database, work, providers, series, collectors>> /\ (HasAll' <=> HasAll)
    BY <1>2 DEF ReadPart, client, state, registry, schedule, HasAll, Early
  <2>. QED BY <1>2, <2>1, PartComing, RegistriesQuiet
<1>3. CASE ReadDropped
  <2>1. Coming' = {} /\ service # "loaded"
    BY <1>0, <1>1, <1>3 DEF ReadDropped, Complete, client
  <2>2. work = {} /\ \A c \in Collectors : series[c] = None /\ collectors[c] = "none"
    BY <2>1 DEF Exchange
  <2>3. UNCHANGED <<service, work, series, collectors>>
    BY <1>3 DEF ReadDropped, state, registry, schedule
  <2>. QED BY <2>1, <2>2, <2>3, NothingRegistries
<1>4. CASE ReadStatus
  <2>1. Coming' = {} /\ Coming = {} /\ work = {}
    BY <1>0, <1>1, <1>4 DEF ReadStatus, Complete, Reads, client
  <2>2. UNCHANGED <<database, work, providers, series, collectors>> /\ (HasAll' <=> HasAll)
    BY <1>4 DEF ReadStatus, client, state, registry, schedule, HasAll, Early
  <2>. QED BY <2>1, <2>2, RegistriesSame
<1>5. CASE ReadUpdate
  <2>1. Coming' = {} /\ Coming = {} /\ work = {} /\ ComingKind = "UPDATE"
    BY <1>0, <1>1, <1>5 DEF ReadUpdate, Complete, Reads, client
  <2>2. Early /\ service # "loaded"
    BY <2>1 DEF Exchange
  <2>3. UNCHANGED <<database, work, providers, series, collectors>> /\ (HasAll' <=> HasAll)
    BY <1>5, <2>2 DEF ReadUpdate, client, registry, schedule, HasAll, Early
  <2>. QED BY <2>1, <2>3, RegistriesSame
<1>6. CASE ReadData
  <2>1. Coming' = {} /\ work' = Coming /\ work = {} /\ service = "loaded" /\ Coming \subseteq Items
    BY <1>0, <1>1, <1>6 DEF ReadData, Complete, Reads, client
  <2>2. UNCHANGED <<database, phase, service, providers, series, collectors>>
    BY <1>6 DEF ReadData, client, state, registry, schedule
  <2>. QED BY <2>1, <2>2, DataRegistries
<1>7. CASE ReadRequest \/ ReadTerminate
  BY <1>0, <1>7 DEF ReadRequest, ReadTerminate, Complete, Reads
<1>8. CASE ReadUnknown
  BY <1>8 DEF ReadUnknown
<1>. QED BY <1>2, <1>3, <1>4, <1>5, <1>6, <1>7, <1>8 DEF ReadMessage

LEMMA RegistriesNext ==
  ASSUME TypeInv, Framed, Database, Snapshot, Exchange, Registries, [Next]_vars, ~Fresh, Calm'
  PROVE  Registries'
<1>0. Calm /\ Orderly /\ Orderly'
  BY CalmBefore
<1>1. CASE User
  BY <1>0, <1>1, UserRegistries
<1>2. CASE Connect \/ Client
  BY <1>0, <1>2, ClientRegistries
<1>3. CASE Arrive
  <2>1. UNCHANGED <<database, work, providers, series, collectors>> /\ (HasAll' <=> HasAll)
    BY <1>3 DEF Arrive, client, state, registry, schedule, HasAll, Early
  <2>2. Coming' = Coming /\ Silent' = Silent
    BY <1>0, <1>3, ArriveComing DEF Silent
  <2>. QED BY <2>1, <2>2, RegistriesQuiet
<1>4. CASE ReadMessage
  BY <1>0, <1>4, ReadRegistries
<1>5. CASE Handle
  BY <1>0, <1>5, HandleRegistries
<1>6. CASE Start \/ UNCHANGED vars
  <2>1. UNCHANGED <<database, work, providers, series, collectors, wire, buffer>> /\ (HasAll' <=> HasAll)
    BY <1>6 DEF Start, vars, client, socket, state, registry, schedule, HasAll, Early
  <2>. QED BY <2>1, QuietComing, RegistriesQuiet
<1>7. CASE Crash \/ StopReturns
  BY <1>7 DEF Crash, StopReturns
<1>8. CASE Cut
  <2>1. ~Outstanding /\ phase \in {"open", "told"}
    BY <1>8 DEF Cut, Calm
  <2>2. /\ wire' = <<>> /\ buffer' = <<>> /\ phase' = "closed"
        /\ UNCHANGED <<database, service, work, providers, series, collectors>>
    BY <1>8 DEF Cut, state, registry, schedule
  <2>3. Silent /\ Coming = {} /\ Coming' = {}
    BY <2>1, <2>2, SilentKind DEF Outstanding, Silent, Coming
  <2>4. HasAll' <=> HasAll
    BY <2>1, <2>2 DEF HasAll, Early
  <2>. QED BY <2>2, <2>3, <2>4, RegistriesSame
<1>. QED BY <1>1, <1>2, <1>3, <1>4, <1>5, <1>6, <1>7, <1>8 DEF Next

\* While nothing has gone wrong, the database, the client, what is on its way, what is in hand
\* and the registries fit together.
Settled == Database /\ (Calm => Snapshot /\ Exchange /\ Registries)

LEMMA SettledInit == Init => Settled
<1>. SUFFICES ASSUME Init PROVE Settled
  OBVIOUS
<1>1. Database /\ Snapshot /\ Exchange
  BY ExchangeInit DEF Init, Database, Snapshot
<1>2. /\ work = {} /\ service # "loaded" /\ Coming = {}
      /\ \A c \in Collectors : series[c] = None /\ collectors[c] = "none"
  BY SilentKind DEF Init, Silent
<1>3. /\ ~HasAll /\ OneOnly(work) /\ OneOnly(Coming) /\ Paired
      /\ \A c \in Collectors : Unknown(ItemsOf(Coming, c), ItemsOf(work, c), series[c], collectors[c], dbSeries[c])
  BY <1>2, NoItems DEF HasAll, Unknown, Paired, Shape
<1>. QED BY <1>1, <1>3 DEF Settled, Registries

LEMMA SettledNext == TypeInv /\ Framed /\ Settled /\ [Next]_vars => Settled'
<1>. SUFFICES ASSUME TypeInv, Framed, Settled, [Next]_vars PROVE Settled'
  OBVIOUS
<1>1. Database'
  BY DatabaseNext DEF Settled
<1>2. ASSUME Calm' PROVE Snapshot' /\ Exchange' /\ Registries'
  <2>1. CASE Fresh
    <3>1. Snapshot' /\ Exchange'
      BY <2>1, ExchangeFresh DEF Fresh, Snapshot
    <3>2. work' = {} /\ service' # "loaded" /\ Coming' = {}
      BY <2>1, FreshComing DEF Fresh
    <3>3. \A c \in Collectors : series'[c] = None /\ collectors'[c] = "none"
      BY <2>1 DEF Fresh
    <3>. QED BY <3>1, <3>2, <3>3, NothingRegistries
  <2>2. CASE ~Fresh
    <3>1. Database /\ Snapshot /\ Exchange /\ Registries
      BY <1>2, <2>2, CalmBefore DEF Settled
    <3>. QED BY <1>2, <2>2, <3>1, SnapshotNext, ExchangeNext, RegistriesNext
  <2>. QED BY <2>1, <2>2
<1>. QED BY <1>1, <1>2 DEF Settled

LEMMA SettledAgrees == TypeInv /\ TimersInv /\ Settled => Synchronised
<1>. SUFFICES ASSUME TypeInv, TimersInv, Settled, Untroubled, phase = "told", ~Outstanding, work = {}
              PROVE  InStep
  BY DEF Synchronised
<1>0. DbType /\ RegistryType
  BY TypeParts
<1>1. Database /\ Exchange /\ Registries
  BY DEF Settled, Untroubled, Calm
<1>2. Silent /\ Coming = {}
  BY SilentKind DEF Outstanding, Silent
<1>3. service = "loaded" /\ valid /\ HasAll
  BY <1>1 DEF Exchange, Untroubled, HasAll, Early
<1>4. dbProviders \subseteq providers
  BY <1>1, <1>2, <1>3, NoItems DEF Registries
<1>5. ASSUME NEW c \in Collectors
      PROVE  series[c] = dbSeries[c] /\ collectors[c] = Wanted(dbSeries[c], c \in dbActive)
  <2>1. dbSeries[c] \in Providers \cup {None} /\ (c \in dbActive) \in BOOLEAN
    BY <1>0 DEF DbType
  <2>2. Says(c, dbSeries[c], c \in dbActive) # {}
    BY <2>1, SaysItems
  <2>3. InHand(c, {}, series[c], collectors[c], dbSeries[c], c \in dbActive)
    BY <1>1, <1>2, <1>3, <2>2, NoItems DEF Registries, Agrees
  <2>. QED BY <2>2, <2>3 DEF InHand
<1>6. series = dbSeries
  BY <1>0, <1>5 DEF DbType, RegistryType
<1>7. \A c \in Collectors :
        collectors[c] = IF dbSeries[c] = None THEN "none" ELSE IF c \in dbActive THEN "on" ELSE "off"
  BY <1>5 DEF Wanted
<1>8. timers = dbActive
  <2>1. timers = {c \in Collectors : collectors[c] = "on"}
    BY DEF TimersInv, Untroubled
  <2>2. \A c \in Collectors : collectors[c] = "on" <=> c \in dbActive
    BY <1>1, <1>7 DEF Database
  <2>. QED BY <1>0, <2>1, <2>2 DEF DbType
<1>. QED BY <1>3, <1>4, <1>6, <1>7, <1>8 DEF InStep

\* When the web application has told a service everything and all is read they agree: on the
\* providers, on the series and the state of each collector, and on the timers, whatever was
\* edited before, while and after the service was started, except while the first ADD_DATA
\* is being read from the database (raced).
THEOREM SynchronisedCorrect == Spec => []Synchronised
BY TypeInit, TypeNext, FramedInit, FramedNext, TimersInit, TimersNext, SettledInit, SettledNext,
   SettledAgrees, PTL DEF Spec
-----------------------------------------------------------------------------
(* The start of a process *)

UnitsOf(s) == {s[k] : k \in 1..Len(s)}

\* The units on their way.
OnWay == UnitsOf(wire) \cup UnitsOf(buffer)

\* When the start of a process by a client whose service had read everything is on its way,
\* nothing but requests is and nothing else will be, and the process is registered, or will be
\* when what is in hand is done.
Startable ==
  \A u \in OnWay : \A i \in u.content :
    u.kind = "START" /\ i.told =>
      /\ "burst" \in trouble /\ phase = "told" /\ answers \in Seq({"loaded"})
      /\ \A v \in OnWay : v.kind \in {"START", "LOG"}
      /\ Paired /\ Sound /\ Registers(i.id)

LEMMA UnitsOfEmpty == UnitsOf(<<>>) = {}
BY DEF UnitsOf

LEMMA UnitsOfRest ==
  ASSUME NEW s \in Seq(Unit), NEW m \in 1..(Len(s) + 1)
  PROVE  UnitsOf(SubSeq(s, m, Len(s))) \subseteq UnitsOf(s)
<1>1. Len(s) \in Nat
  OBVIOUS
<1>. DEFINE t == SubSeq(s, m, Len(s))
<1>2. Len(t) = Len(s) - m + 1 /\ \A k \in 1..(Len(s) - m + 1) : t[k] = s[m + k - 1]
  BY <1>1
<1>. HIDE DEF t
<1>3. \A k \in 1..Len(t) : m + k - 1 \in 1..Len(s)
  BY <1>1, <1>2
<1>4. UnitsOf(t) \subseteq UnitsOf(s)
  BY <1>2, <1>3 DEF UnitsOf
<1>. QED BY <1>4 DEF t

LEMMA UnitsOfTail ==
  ASSUME NEW s \in Seq(Unit), s # <<>>
  PROVE  UnitsOf(Tail(s)) \subseteq UnitsOf(s) /\ Head(s) \in UnitsOf(s) /\ Tail(s) \in Seq(Unit)
<1>0. Tail(s) \in Seq(Unit)
  OBVIOUS
<1>1. Len(s) \in Nat /\ Len(s) >= 1 /\ Head(s) = s[1] /\ 1 \in 1..Len(s)
  OBVIOUS
<1>2. Tail(s) = SubSeq(s, 2, Len(s)) /\ 2 \in 1..(Len(s) + 1)
  BY <1>1
<1>3. UnitsOf(SubSeq(s, 2, Len(s))) \subseteq UnitsOf(s)
  BY <1>2, UnitsOfRest
<1>4. Head(s) \in UnitsOf(s)
  BY <1>1 DEF UnitsOf
<1>. QED BY <1>0, <1>2, <1>3, <1>4

LEMMA UnitsOfAppend ==
  ASSUME NEW s \in Seq(Unit), NEW u \in Unit
  PROVE  UnitsOf(Append(s, u)) \subseteq UnitsOf(s) \cup {u}
<1>1. Len(s) \in Nat
  OBVIOUS
<1>2. /\ Len(Append(s, u)) = Len(s) + 1 /\ Append(s, u)[Len(s) + 1] = u
      /\ \A k \in 1..Len(s) : Append(s, u)[k] = s[k]
  BY AppendProperties
<1>3. \A k \in 1..(Len(s) + 1) : k \in 1..Len(s) \/ k = Len(s) + 1
  BY <1>1
<1>. QED BY <1>2, <1>3 DEF UnitsOf

LEMMA UnitsOfConcat ==
  ASSUME NEW s \in Seq(Unit), NEW t \in Seq(Unit)
  PROVE  UnitsOf(s \o t) \subseteq UnitsOf(s) \cup UnitsOf(t)
<1>1. Len(s) \in Nat /\ Len(t) \in Nat
  OBVIOUS
<1>2. /\ Len(s \o t) = Len(s) + Len(t)
      /\ \A k \in 1..(Len(s) + Len(t)) : (s \o t)[k] = IF k <= Len(s) THEN s[k] ELSE t[k - Len(s)]
  BY ConcatProperties
<1>3. \A k \in 1..(Len(s) + Len(t)) : (k <= Len(s) /\ k \in 1..Len(s)) \/ (~(k <= Len(s)) /\ k - Len(s) \in 1..Len(t))
  BY <1>1
<1>. QED BY <1>2, <1>3 DEF UnitsOf

LEMMA UnitsOfMessage ==
  ASSUME NEW m \in Nat, NEW kind \in Kinds, NEW content
  PROVE  \A u \in UnitsOf(Units(m, kind, content)) : u.kind = kind /\ u.content = content
<1>1. /\ Len(Units(m, kind, content)) = 2 + JsonUnits(kind)
      /\ \A k \in 1..(2 + JsonUnits(kind)) :
           Units(m, kind, content)[k] = [n |-> m, kind |-> kind, content |-> content, part |-> k - 1]
  BY UnitsAre
<1>. QED BY <1>1 DEF UnitsOf

\* A message is sent.
LEMMA SentOnWay ==
  ASSUME TypeInv, NEW kind \in Kinds, NEW content \in Contents(kind),
         wire' = wire \o Units(sent + 1, kind, content), buffer' = buffer
  PROVE  \A u \in OnWay' : u \in OnWay \/ (u.kind = kind /\ u.content = content)
<1>1. sent + 1 \in Nat \ {0} /\ wire \in Seq(Unit)
  BY TypeParts DEF ClientType, Stream, Stretch
<1>. DEFINE t == Units(sent + 1, kind, content)
<1>2. t \in Seq(Unit)
  <2>1. Stretch(Units(sent + 1, kind, content), sent + 1)
    BY <1>1, UnitsStretch
  <2>. QED BY <2>1 DEF Stretch
<1>3. \A u \in UnitsOf(t) : u.kind = kind /\ u.content = content
  BY <1>1, UnitsOfMessage
<1>. HIDE DEF t
<1>4. UnitsOf(wire \o t) \subseteq UnitsOf(wire) \cup UnitsOf(t)
  BY <1>1, <1>2, UnitsOfConcat
<1>5. wire' = wire \o t
  BY DEF t
<1>. QED BY <1>3, <1>4, <1>5 DEF OnWay

LEMMA SentBothOnWay ==
  ASSUME TypeInv, NEW kind1 \in Kinds, NEW content \in Contents(kind1), NEW kind2 \in Kinds, Contents(kind2) = {{}},
         SendBoth(kind1, content, kind2), buffer' = buffer
  PROVE  \A u \in OnWay' : \/ u \in OnWay
                           \/ u.kind = kind1 /\ u.content = content
                           \/ u.kind = kind2 /\ u.content = {}
<1>1. sent + 1 \in Nat \ {0} /\ sent + 2 \in Nat \ {0} /\ wire \in Seq(Unit)
  BY TypeParts DEF ClientType, Stream, Stretch
<1>. DEFINE t == Units(sent + 1, kind1, content)
            r == Units(sent + 2, kind2, {})
<1>2. t \in Seq(Unit) /\ r \in Seq(Unit)
  <2>1. Stretch(Units(sent + 1, kind1, content), sent + 1)
    BY <1>1, UnitsStretch
  <2>2. {} \in Contents(kind2)
    OBVIOUS
  <2>3. Stretch(Units(sent + 2, kind2, {}), sent + 2)
    BY <1>1, <2>2, UnitsStretch
  <2>. QED BY <2>1, <2>3 DEF Stretch
<1>3. /\ \A u \in UnitsOf(t) : u.kind = kind1 /\ u.content = content
      /\ \A u \in UnitsOf(r) : u.kind = kind2 /\ u.content = {}
  BY <1>1, UnitsOfMessage
<1>4. wire' = (wire \o t) \o r
  BY DEF SendBoth
<1>. HIDE DEF t, r
<1>5. UnitsOf(wire \o t) \subseteq UnitsOf(wire) \cup UnitsOf(t) /\ wire \o t \in Seq(Unit)
  BY <1>1, <1>2, UnitsOfConcat
<1>6. UnitsOf((wire \o t) \o r) \subseteq UnitsOf(wire \o t) \cup UnitsOf(r)
  BY <1>2, <1>5, UnitsOfConcat
<1>. QED BY <1>3, <1>4, <1>5, <1>6 DEF OnWay

\* What is read next is on its way.
LEMMA BehindOnWay ==
  ASSUME TypeInv, buffer # <<>> \/ blockSize # 0
  PROVE  UnitsOf(Behind) \subseteq OnWay /\ Behind \in Seq(Unit) /\ Size \in 0..Huge /\ (Behind # <<>> => Head(Behind) \in OnWay)
<1>0. buffer \in Seq(Unit)
  BY TypeParts DEF Stream, Stretch
<1>1. Behind \in Seq(Unit) /\ Size \in 0..Huge
  BY BehindStretch DEF Stretch
<1>2. UnitsOf(Behind) \subseteq UnitsOf(buffer)
  <2>1. CASE blockSize = 0
    BY <1>0, <2>1, UnitsOfTail DEF Behind
  <2>2. CASE blockSize # 0
    BY <2>2 DEF Behind
  <2>. QED BY <2>1, <2>2
<1>3. Behind # <<>> => Head(Behind) \in UnitsOf(Behind)
  BY <1>1, UnitsOfTail
<1>. QED BY <1>1, <1>2, <1>3 DEF OnWay

\* What is on its way grows only with what is sent.
LEMMA OnWayStays ==
  ASSUME TypeInv, [Next]_vars, ~User, ~Connect, ~SendSnapshot, OnStatus => wire' = wire
  PROVE  OnWay' \subseteq OnWay
<1>0. wire \in Seq(Unit) /\ buffer \in Seq(Unit)
  BY TypeParts DEF Stream, Stretch
<1>1. CASE Client
  <2>1. UNCHANGED <<wire, buffer>>
    BY <1>1 DEF Client, OnStatus, ReadSeries, ReadCollectors, socket
  <2>. QED BY <2>1 DEF OnWay
<1>2. CASE Arrive
  <2>1. wire # <<>> /\ wire' = Tail(wire) /\ buffer' = Append(buffer, Head(wire))
    BY <1>2 DEF Arrive
  <2>2. UnitsOf(Tail(wire)) \subseteq UnitsOf(wire) /\ Head(wire) \in UnitsOf(wire)
    BY <1>0, <2>1, UnitsOfTail
  <2>3. Head(wire) \in Unit
    BY <1>0, <2>1
  <2>4. UnitsOf(Append(buffer, Head(wire))) \subseteq UnitsOf(buffer) \cup {Head(wire)}
    BY <1>0, <2>3, UnitsOfAppend
  <2>. QED BY <2>1, <2>2, <2>4 DEF OnWay
<1>3. CASE Fresh
  BY <1>3, UnitsOfEmpty DEF Fresh, OnWay
<1>4. CASE ReadMessage /\ ~Fresh
  <2>1. CASE ReadPart
    <3>1. wire' = wire /\ (((buffer # <<>> \/ blockSize # 0) /\ buffer' = Behind) \/ buffer' = buffer)
      BY <2>1 DEF ReadPart
    <3>. QED BY <3>1, BehindOnWay DEF OnWay
  <2>2. CASE ReadDropped \/ ReadStatus \/ ReadUpdate \/ ReadData \/ ReadRequest
    <3>1. wire' = wire /\ buffer' = <<>>
      BY <2>2 DEF ReadDropped, ReadStatus, ReadUpdate, ReadData, ReadRequest, Complete
    <3>. QED BY <3>1, UnitsOfEmpty DEF OnWay
  <2>3. CASE ReadTerminate
    <3>1. wire' = wire /\ buffer' = SubSeq(Behind, Size + 1, Len(Behind)) /\ Len(Behind) >= Size /\ (buffer # <<>> \/ blockSize # 0)
      BY <2>3 DEF ReadTerminate, AtHand
    <3>2. UnitsOf(Behind) \subseteq OnWay /\ Behind \in Seq(Unit) /\ Size \in 0..Huge
      BY <3>1, BehindOnWay
    <3>3. Size + 1 \in 1..(Len(Behind) + 1)
      BY <3>1, <3>2 DEF Huge
    <3>4. UnitsOf(SubSeq(Behind, Size + 1, Len(Behind))) \subseteq UnitsOf(Behind)
      BY <3>2, <3>3, UnitsOfRest
    <3>. QED BY <3>1, <3>2, <3>4 DEF OnWay
  <2>4. CASE ReadUnknown
    BY <1>4, <2>4 DEF ReadUnknown
  <2>. QED BY <1>4, <2>1, <2>2, <2>3, <2>4 DEF ReadMessage
<1>5. CASE Handle \/ Start \/ UNCHANGED vars
  <2>1. UNCHANGED <<wire, buffer>>
    BY <1>5 DEF Handle, DoProvider, DoSeries, DoCollector, DropCollector, DropSeries, Start, vars, socket
  <2>. QED BY <2>1 DEF OnWay
<1>6. CASE Cut
  BY <1>6, UnitsOfEmpty DEF Cut, OnWay
<1>. QED BY <1>1, <1>2, <1>3, <1>4, <1>5, <1>6 DEF Next, Crash, StopReturns

LEMMA HandleSound ==
  ASSUME TypeInv, Paired, Sound, Handle
  PROVE  Paired' /\ Sound' /\ Keeps
<1>1. PICK w \in work : DoProvider(w) \/ DoSeries(w) \/ DoCollector(w) \/ DropCollector(w) \/ DropSeries(w)
  BY DEF Handle
<1>2. CASE DoProvider(w)
  BY <1>2, HandleProvider
<1>3. CASE DoSeries(w) \/ DoCollector(w) \/ DropCollector(w) \/ DropSeries(w)
  <2>1. w.op # "provider" /\ w.id \in Collectors /\ DoneItem(w)
    BY <1>3, HandleItem DEF ThrownItem
  <2>2. Paired'
    BY <2>1, DonePaired DEF DoneItem
  <2>. QED BY <2>1, <2>2 DEF DoneItem
<1>. QED BY <1>1, <1>2, <1>3

\* The START of a process is asked for when everything is read and agrees with the database.
LEMMA AskedStartable ==
  ASSUME TypeInv, Settled, NEW c \in Collectors, dbSeries[c] # None, Told
  PROVE  OnWay = {} /\ service = "loaded" /\ phase = "told" /\ answers \in Seq({"loaded"}) /\ Paired /\ Sound /\ Registers(c)
<1>1. Calm /\ Silent /\ phase = "told" /\ Exchange /\ Registries
  BY DEF Told, Calm, Outstanding, Silent, Settled
<1>2. service = "loaded" /\ HasAll /\ answers \in Seq({"loaded"})
  BY <1>1 DEF Exchange, HasAll, Early
<1>3. OnWay = {} /\ Coming = {}
  BY <1>1, SilentKind, UnitsOfEmpty DEF OnWay, Silent
<1>4. Paired /\ Sound
  BY <1>1, <1>2 DEF Registries, Harmless
<1>5. InHand(c, ItemsOf(work, c), series[c], collectors[c], dbSeries[c], c \in dbActive)
  <2>1. dbSeries[c] \in Providers \cup {None} /\ (c \in dbActive) \in BOOLEAN
    BY TypeParts DEF DbType
  <2>2. Says(c, dbSeries[c], c \in dbActive) # {}
    BY <2>1, SaysItems
  <2>. QED BY <1>1, <1>2, <1>3, <2>2, NoItems DEF Registries, Agrees
<1>6. /\ DropCollectorItem(c) \notin ItemsOf(work, c)
      /\ collectors[c] # "none" \/ \E i \in ItemsOf(work, c) : i.op = "collector" /\ i.id = c
  BY <1>5, InHandRegistered
<1>7. Registers(c)
  BY <1>6 DEF Registers, ItemsOf, DropCollectorItem
<1>. QED BY <1>1, <1>2, <1>3, <1>4, <1>7

LEMMA StartableInit == Init => Startable
<1>. SUFFICES ASSUME Init PROVE OnWay = {}
  BY DEF Startable
<1>. QED BY UnitsOfEmpty DEF Init, OnWay

\* A START that is on its way is still there: nothing is sent, and only requests are read.
LEMMA StartableKept ==
  ASSUME TypeInv, Startable, [Next]_vars, NEW u \in OnWay, NEW i \in u.content, i.id \in Collectors,
         u.kind = "START", i.told, OnWay' # {}
  PROVE  /\ "burst" \in trouble' /\ phase' = "told" /\ answers' \in Seq({"loaded"})
         /\ \A v \in OnWay' : v.kind \in {"START", "LOG"}
         /\ Paired' /\ Sound' /\ Registers(i.id)'
<1>0. /\ "burst" \in trouble /\ phase = "told" /\ answers \in Seq({"loaded"})
      /\ \A v \in OnWay : v.kind \in {"START", "LOG"}
      /\ Paired /\ Sound /\ Registers(i.id)
  BY DEF Startable
<1>1. ~Fresh /\ ~Cut
  BY UnitsOfEmpty DEF Fresh, Cut, OnWay
<1>2. "burst" \in trouble'
  BY <1>0, <1>1, TroubleStays
<1>3. ~Asks /\ ~Connect /\ ~ReadSeries /\ ~ReadCollectors /\ ~SendSnapshot
  BY <1>0 DEF Asks, Connect, ReadSeries, ReadCollectors, SendSnapshot
<1>4. ~User
  BY <1>3 DEF User, AddProvider, RemoveProvider, RemoveCollector, SaveCollector, Edit, Request
<1>5. OnStatus => phase' = "told" /\ answers' \in Seq({"loaded"}) /\ wire' = wire
  <2>. SUFFICES ASSUME OnStatus PROVE phase' = "told" /\ answers' \in Seq({"loaded"}) /\ wire' = wire
    OBVIOUS
  <2>1. answers # <<>> /\ answers' = Tail(answers)
    BY DEF OnStatus
  <2>2. Head(answers) = "loaded" /\ Tail(answers) \in Seq({"loaded"})
    BY <1>0, <2>1
  <2>. QED BY <1>0, <2>1, <2>2 DEF OnStatus
<1>6. \A v \in OnWay' : v.kind \in {"START", "LOG"}
  BY <1>0, <1>3, <1>4, <1>5, OnWayStays
<1>7. ASSUME AtHand, Recognized PROVE Head(Behind).kind \in {"START", "LOG"}
  BY <1>0, <1>7, BehindOnWay DEF AtHand, Recognized
<1>8. ~ReadStatus /\ ~ReadUpdate /\ ~ReadData /\ ~ReadTerminate /\ ~ReadUnknown
  BY <1>1, <1>7 DEF ReadStatus, ReadUpdate, ReadData, ReadTerminate, ReadUnknown, Complete, Reads
<1>9. CASE Handle
  <2>1. UNCHANGED <<phase, answers>>
    BY <1>9 DEF Handle, DoProvider, DoSeries, DoCollector, DropCollector, DropSeries, client, socket
  <2>2. Paired' /\ Sound' /\ Registers(i.id)'
    BY <1>0, <1>9, HandleSound DEF Keeps
  <2>. QED BY <1>0, <1>2, <1>6, <2>1, <2>2
<1>10. CASE ~Handle
  <2>1. UNCHANGED <<work, providers, series, collectors>>
    <3>1. UNCHANGED registry
      BY <1>1, <1>10, RegistryStays
    <3>2. UNCHANGED work
      BY <1>1, <1>3, <1>4, <1>8, <1>10 DEF Next, Client, OnStatus, Arrive, ReadMessage, ReadPart, ReadDropped, ReadRequest, Start, Crash, StopReturns, vars
    <3>. QED BY <3>1, <3>2 DEF registry, schedule
  <2>2. Paired' /\ Sound' /\ Registers(i.id)'
    BY <1>0, <2>1 DEF Paired, Sound, Registers
  <2>3. phase' = "told" /\ answers' \in Seq({"loaded"})
    <3>1. CASE OnStatus
      BY <1>5, <3>1
    <3>2. CASE ~OnStatus
      <4>1. UNCHANGED <<phase, answers>>
        BY <1>1, <1>3, <1>4, <1>8, <1>10, <3>2 DEF Next, Client, Arrive, ReadMessage, ReadPart, ReadDropped, ReadRequest, Start, Crash, StopReturns, vars, client, socket
      <4>. QED BY <1>0, <4>1
    <3>. QED BY <3>1, <3>2
  <2>. QED BY <1>2, <1>6, <2>2, <2>3
<1>. QED BY <1>9, <1>10

\* A START that is sent names a process of the database, and the service was told that, or not.
LEMMA StartableSent ==
  ASSUME TypeInv, Settled, [Next]_vars, NEW u \in OnWay', u \notin OnWay, NEW i \in u.content,
         u.kind = "START", i.told
  PROVE  /\ "burst" \in trouble' /\ phase' = "told" /\ answers' \in Seq({"loaded"})
         /\ \A v \in OnWay' : v.kind \in {"START", "LOG"}
         /\ Paired' /\ Sound' /\ Registers(i.id)'
<1>1. ASSUME NEW kind \in Kinds, NEW content \in Contents(kind),
             wire' = wire \o Units(sent + 1, kind, content), buffer' = buffer
      PROVE  kind = "START"
  BY <1>1, SentOnWay
<1>2. ASSUME NEW kind \in {"ADD", "REMOVE"}, NEW content \in SUBSET Items, Edit(kind, content) PROVE FALSE
  <2>1. kind \in Kinds /\ content \in Contents(kind)
    BY DEF Kinds, Contents
  <2>2. CASE wire' = wire \o Units(sent + 1, kind, content)
    BY <1>1, <1>2, <2>1, <2>2 DEF Edit
  <2>3. CASE UNCHANGED <<sent, wire>>
    BY <1>2, <2>3 DEF Edit, OnWay
  <2>. QED BY <1>2, <2>2, <2>3 DEF Edit
<1>3. ASSUME NEW kind \in {"STATUS", "UPDATE"}, Send(kind, {}), buffer' = buffer PROVE FALSE
  <2>1. kind \in Kinds /\ {} \in Contents(kind)
    BY DEF Kinds, Contents
  <2>. QED BY <1>1, <1>3, <2>1 DEF Send
<1>4. ~Connect
  BY <1>3 DEF Connect
<1>5. ~SendSnapshot
  <2>1. snapshot \in Contents("ADD") /\ "ADD" \in Kinds
    BY TypeParts DEF ClientType, Contents, Kinds
  <2>. QED BY <1>1, <2>1 DEF SendSnapshot, Send
<1>6. OnStatus => wire' = wire
  BY <1>3 DEF OnStatus
<1>7. User
  BY <1>4, <1>5, <1>6, OnWayStays
<1>8. PICK what \in Requests : Request(what)
  <2>1. ASSUME NEW p \in Providers, AddProvider(p) PROVE FALSE
    BY <2>1, <1>2, ItemsAre DEF AddProvider
  <2>2. ASSUME NEW p \in Providers, RemoveProvider(p) PROVE FALSE
    BY <2>2, <1>2 DEF RemoveProvider
  <2>3. ASSUME NEW c \in Collectors, RemoveCollector(c) PROVE FALSE
    BY <2>3, <1>2, ItemsAre DEF RemoveCollector
  <2>4. ASSUME NEW c \in Collectors, NEW p \in Providers, NEW on \in BOOLEAN, SaveCollector(c, p, on) PROVE FALSE
    BY <2>4, <1>2, ItemsAre DEF SaveCollector
  <2>. QED BY <1>7, <2>1, <2>2, <2>3, <2>4 DEF User
<1>9. UNCHANGED <<phase, buffer, answers, work, providers, series, collectors>>
  BY <1>8 DEF Request, state, registry, schedule
<1>10. ~Send("STATUS", {})
  BY <1>3, <1>9
<1>11. Contents("STATUS") = {{}} /\ Contents("LOG") = {{}} /\ Contents("TERMINATE") = {{}}
       /\ {"STATUS", "LOG", "START", "TERMINATE"} \subseteq Kinds
  BY DEF Contents, Kinds
<1>12. ~SendBoth("TERMINATE", {}, "STATUS")
  BY <1>9, <1>11, SentBothOnWay
<1>13. PICK c \in Collectors : dbSeries[c] # None /\ SendBoth("START", {StartItem(c)}, "LOG")
  BY <1>8, <1>10, <1>12 DEF Request
<1>14. {StartItem(c)} \in Contents("START")
  BY DEF Contents, StartItem, StartItems, Told
<1>15. \A v \in OnWay' : v \in OnWay \/ (v.kind = "START" /\ v.content = {StartItem(c)}) \/ v.kind = "LOG"
  BY <1>9, <1>11, <1>13, <1>14, SentBothOnWay
<1>16. i = StartItem(c) /\ Told /\ i.id = c
  BY <1>15 DEF StartItem
<1>17. OnWay = {} /\ phase = "told" /\ answers \in Seq({"loaded"}) /\ Paired /\ Sound /\ Registers(i.id)
  BY <1>13, <1>16, AskedStartable
<1>18. Paired' /\ Sound' /\ Registers(i.id)'
  BY <1>9, <1>17 DEF Paired, Sound, Registers
<1>. QED BY <1>9, <1>13, <1>15, <1>17, <1>18 DEF SendBoth

LEMMA OnWaySane ==
  ASSUME TypeInv, NEW u \in OnWay
  PROVE  u \in Unit /\ u.content \in Contents(u.kind)
<1>1. ASSUME NEW s, Stretch(s, sent), NEW v \in UnitsOf(s) PROVE v \in Unit /\ v.content \in Contents(v.kind)
  BY <1>1 DEF Stretch, UnitsOf, Sane
<1>. QED BY <1>1, TypeParts DEF Stream, OnWay

LEMMA StartableNext == TypeInv /\ Settled /\ Startable /\ [Next]_vars => Startable'
<1>. SUFFICES ASSUME TypeInv, Settled, Startable, [Next]_vars,
                     NEW u \in OnWay', NEW i \in u.content, u.kind = "START", i.told
              PROVE  /\ "burst" \in trouble' /\ phase' = "told" /\ answers' \in Seq({"loaded"})
                     /\ \A v \in OnWay' : v.kind \in {"START", "LOG"}
                     /\ Paired' /\ Sound' /\ Registers(i.id)'
  BY DEF Startable
<1>1. CASE u \in OnWay
  <2>1. i.id \in Collectors
    BY <1>1, OnWaySane DEF Contents, StartItems
  <2>. QED BY <1>1, <2>1, StartableKept
<1>2. CASE u \notin OnWay
  BY <1>2, StartableSent
<1>. QED BY <1>1, <1>2

LEMMA StartableLives == TypeInv /\ Startable => NoDeadlyStart
<1>. SUFFICES ASSUME TypeInv, Startable, AtHand, Recognized, Head(Behind).kind = "START", Asked.told
              PROVE  collectors[Asked.id] # "none"
  BY DEF NoDeadlyStart
<1>. DEFINE u == Head(Behind)
<1>1. u \in OnWay /\ work = {}
  BY BehindOnWay DEF AtHand, CanRead, Recognized
<1>2. PICK i \in StartItems : u.content = {i}
  BY <1>1, OnWaySane DEF Contents
<1>3. Asked = i
  BY <1>2 DEF Asked
<1>. HIDE DEF u
<1>4. u.kind = "START"
  BY DEF u
<1>5. Registers(i.id)
  BY <1>1, <1>2, <1>3, <1>4 DEF Startable
<1>. QED BY <1>1, <1>3, <1>5 DEF Registers

\* A service does not die of the start of a process when it had been told and had read
\* everything when the start was asked for: the process is registered when the message is
\* read, whatever was edited before and whatever else is in hand.
THEOREM NoDeadlyStartCorrect == Spec => []NoDeadlyStart
BY TypeInit, TypeNext, FramedInit, FramedNext, SettledInit, SettledNext, StartableInit, StartableNext,
   StartableLives, PTL DEF Spec
=============================================================================
