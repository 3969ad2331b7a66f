---------------------------- MODULE DashboardProofs ----------------------------
(***************************************************************************)
(* Proofs about Dashboard, for any knobs, patches and levels, any capacity *)
(* of the subscription and any number of operations and faults: an edit is *)
(* only ever queued for the patch the page shows (PendingIsCurrent), and   *)
(* at rest the page shows what the daemon has (DashboardAgrees).           *)
(*                                                                         *)
(* The second rests on three invariants about items: knobs, pedals with an *)
(* enable, and the selected patch. LastWord: the last word of the stream   *)
(* on an item is the daemon's. PageKnows: what the page does not have is   *)
(* queued, asked for or on its way. SeedKnows: so is what the chain's      *)
(* answer does not have.                                                   *)
(***************************************************************************)
EXTENDS Dashboard, SequenceTheorems, TLAPS

SnapshotItems == StatusKnobs \cup {"current"}
PatchItems == PatchKnobs \cup StagePedals \cup {"current"}
SeedItems == ChainKnobs \cup StagePedals

\* An event is about an item; it, or a snapshot, has a value for it, and which.
Tells(e, x) == e.kind # "snapshot" /\ x \in Subject(e)
Carries(e, x) ==
    \/ e.kind \in {"value", "enable", "patch"} /\ x \in Subject(e)
    \/ e.kind = "snapshot" /\ x \in SnapshotItems
Says(e, x) ==
    IF x = "current" THEN e.name
    ELSE IF x \in StagePedals THEN e.stages[x] ELSE e.values[x]

\* What the daemon has of an item, and whether the page shows it.
Truth(x) ==
    IF x = "current" THEN reg.current
    ELSE IF x \in StagePedals THEN stageOn[reg.current][x] ELSE stored[reg.current][x]
Shows(x, v) ==
    IF x = "current" THEN current = v
    ELSE IF x \in StagePedals THEN enabled[x] = v ELSE shown[x] = FromEngine(x, v)

----------------------------------------------------------------------------
\* Types: the functions are total, the lists are lists, and what is on its way
\* has the parts its kind has.

IsEvent(e) ==
    \/ e.kind = "value" /\ DOMAIN e.values \subseteq Knobs
    \/ e.kind = "enable" /\ DOMAIN e.stages \subseteq StagePedals
    \/ e.kind = "patch" /\ DOMAIN e.values = PatchKnobs /\ DOMAIN e.stages = StagePedals
    \/ e.kind = "bare"
IsSnapshot(e) ==
    /\ e.kind = "snapshot" /\ DOMAIN e.values = StatusKnobs
    /\ e = [kind |-> e.kind, name |-> e.name, values |-> e.values, about |-> e.about]
IsRequest(m) ==
    \/ m.kind = "set" /\ m.knob \in Knobs
    \/ m.kind = "enable" /\ m.pedal \in StagePedals
    \/ m.kind = "select" /\ m.name \in Patches

Total(f, S) == f = [x \in S |-> f[x]]
Table(t, S) == t = [q \in Patches |-> [x \in S |-> t[q][x]]]
IsReg(r) == r = [current |-> r.current, active |-> r.active, loading |-> r.loading]

PageTyped ==
    /\ Total(shown, Knobs) /\ Total(enabled, Pedals)
    /\ DOMAIN pending \subseteq Knobs
    /\ \A m \in net : IsRequest(m)

\* A global knob is the same under every patch.
DaemonTyped ==
    /\ IsReg(reg) /\ reg.current \in Patches /\ reg.active \in Patches
    /\ Table(stored, Knobs) /\ Table(stageOn, StagePedals)
    /\ \A q, r \in Patches, i \in GlobalKnobs : stored[q][i] = stored[r][i]

IsSeq(s) == s \in Seq({s[k] : k \in DOMAIN s})

StreamTyped ==
    /\ IsSeq(stream)
    /\ \A k \in DOMAIN stream : \/ IsEvent(stream[k])
                                \/ k = 1 /\ IsSnapshot(stream[k])
SeedTyped ==
    seed.state = "read" => DOMAIN seed.values = ChainKnobs /\ DOMAIN seed.stages = StagePedals

\* Off line the page knows nothing, and the stream begins without a snapshot.
OffLine ==
    /\ conn = "down" => stream = <<>>
    /\ conn # "live" => /\ Everything \subseteq behind /\ seed.state = "idle"
                        /\ \A k \in DOMAIN stream : IsEvent(stream[k])

Typed == PageTyped /\ DaemonTyped /\ StreamTyped /\ SeedTyped /\ OffLine

----------------------------------------------------------------------------
Later(k, x) == \E j \in DOMAIN stream : j > k /\ Tells(stream[j], x)

LastWord ==
    \A k \in DOMAIN stream, x \in Everything :
        Carries(stream[k], x) =>
            \/ Says(stream[k], x) = Truth(x)
            \/ Later(k, x)
            \/ stream[k].kind = "snapshot" /\ x \in stream[k].about

Asks(m, x) ==
    \/ m.kind = "set" /\ x = m.knob
    \/ m.kind = "enable" /\ x = m.pedal
    \/ m.kind = "select" /\ x = "current"
Asked(x) == \E m \in net : Asks(m, x)

PageKnows ==
    \A x \in Everything :
        \/ x \in behind \/ Shows(x, Truth(x))
        \/ x \in DOMAIN pending \/ Asked(x) \/ Later(0, x)

SeedKnows ==
    seed.state = "read" =>
        \A x \in SeedItems : x \in overtaken \/ Says(seed, x) = Truth(x) \/ Later(0, x)

DashInv == Typed /\ LastWord /\ PageKnows /\ SeedKnows

----------------------------------------------------------------------------
(***************************************************************************)
(* Facts about the items and about lists.                                  *)
(***************************************************************************)

\* No knob is named like a pedal or like the selection.
LEMMA ItemsDiffer ==
    /\ Knobs \cap StagePedals = {}
    /\ "current" \notin Knobs /\ "current" \notin StagePedals
    /\ StagePedals \cap SoftOnes = {}
    /\ StagePedals \subseteq Pedals
<1>1. WiredIds \cap {"drive", "chorus", "trem", "delay", "current"} = {}
  BY DEF WiredIds, Wires, ChainWires, ParamWires, MasteringWires, Wire
<1>2. StagePedals \subseteq {"drive", "chorus", "trem", "delay"}
  BY DEF StagePedals, STAGE_ENABLE
<1>3. SoftOnes \subseteq {"comp", "reverb"}
  BY DEF SoftOnes, SoftPedals, SOFT_BYPASS_PARAMS
<1>4. StagePedals \subseteq Pedals
  BY DEF StagePedals
<1> QED
  BY <1>1, <1>2, <1>3, <1>4, KnobsAssumption

LEMMA KnobSets ==
    /\ GlobalKnobs \subseteq Knobs /\ PatchKnobs \subseteq Knobs
    /\ ChainKnobs \subseteq Knobs /\ StatusKnobs \subseteq Knobs
    /\ GlobalKnobs \cup PatchKnobs = Knobs /\ GlobalKnobs \cap PatchKnobs = {}
  BY DEF GlobalKnobs, PatchKnobs, ChainKnobs, StatusKnobs

LEMMA TableShape ==
    ASSUME NEW t, NEW S
    PROVE  Table(t, S) <=> /\ t = [q \in Patches |-> t[q]]
                           /\ \A q \in Patches : Total(t[q], S)
  BY DEF Table, Total

LEMMA OwnElements ==
    ASSUME NEW S, NEW s \in Seq(S)
    PROVE  IsSeq(s)
<1>1. s \in [1 .. Len(s) -> S] /\ Len(s) \in Nat /\ DOMAIN s = 1 .. Len(s)
  BY LenProperties
<1>2. s \in [1 .. Len(s) -> {s[k] : k \in DOMAIN s}]
  BY <1>1
<1> QED
  BY <1>1, <1>2, SeqDef DEF IsSeq

LEMMA SeqLength ==
    ASSUME NEW s, IsSeq(s)
    PROVE  Len(s) \in Nat /\ DOMAIN s = 1 .. Len(s)
  BY LenProperties DEF IsSeq

\* The rest of a list, an element behind it, and one before it.
LEMMA RestOfSeq ==
    ASSUME NEW s, IsSeq(s), s # <<>>
    PROVE  /\ IsSeq(Tail(s)) /\ Head(s) = s[1] /\ 1 \in DOMAIN s
           /\ DOMAIN Tail(s) = 1 .. Len(s) - 1 /\ Len(Tail(s)) = Len(s) - 1
           /\ \A k \in DOMAIN Tail(s) : k + 1 \in DOMAIN s /\ Tail(s)[k] = s[k + 1]
<1> DEFINE S == {s[k] : k \in DOMAIN s}
<1>1. s \in Seq(S)
  BY DEF IsSeq
<1> HIDE DEF S
<1>2. Tail(s) \in Seq(S) /\ Head(s) = s[1] /\ Len(Tail(s)) = Len(s) - 1
      /\ \A k \in 1 .. Len(Tail(s)) : Tail(s)[k] = s[k + 1]
  BY <1>1, HeadTailProperties
<1>3. Len(s) \in Nat /\ DOMAIN s = 1 .. Len(s) /\ DOMAIN Tail(s) = 1 .. Len(Tail(s))
  BY <1>1, <1>2, LenProperties
<1>4. Len(s) # 0
  BY <1>1, EmptySeq
<1>5. IsSeq(Tail(s))
  BY <1>2, OwnElements
<1>6. \A k \in DOMAIN Tail(s) : k + 1 \in DOMAIN s
  BY <1>2, <1>3
<1> QED
  BY <1>2, <1>3, <1>4, <1>5, <1>6

LEMMA SeqAndLast ==
    ASSUME NEW s, IsSeq(s), NEW e
    PROVE  /\ IsSeq(Append(s, e)) /\ Len(Append(s, e)) = Len(s) + 1
           /\ DOMAIN Append(s, e) = 1 .. Len(s) + 1
           /\ Append(s, e)[Len(s) + 1] = e
           /\ \A k \in DOMAIN s : Append(s, e)[k] = s[k]
<1> DEFINE S == {s[k] : k \in DOMAIN s} \cup {e}
<1>1. s \in Seq(S)
  BY SeqMonotonic DEF IsSeq
<1> HIDE DEF S
<1>2. e \in S
  BY DEF S
<1>3. Append(s, e) \in Seq(S) /\ Len(Append(s, e)) = Len(s) + 1
      /\ (\A k \in 1 .. Len(s) : Append(s, e)[k] = s[k]) /\ Append(s, e)[Len(s) + 1] = e
  BY <1>1, <1>2, AppendProperties
<1>4. IsSeq(Append(s, e))
  BY <1>3, OwnElements
<1>5. DOMAIN s = 1 .. Len(s) /\ DOMAIN Append(s, e) = 1 .. Len(s) + 1
  BY <1>1, <1>3, LenProperties
<1> QED
  BY <1>3, <1>4, <1>5

LEMMA FirstAndSeq ==
    ASSUME NEW s, IsSeq(s), NEW e
    PROVE  /\ IsSeq(<<e>> \o s) /\ Len(<<e>> \o s) = Len(s) + 1
           /\ DOMAIN (<<e>> \o s) = 1 .. Len(s) + 1
           /\ (<<e>> \o s)[1] = e
           /\ \A k \in DOMAIN s : (<<e>> \o s)[k + 1] = s[k]
<1> DEFINE S == {s[k] : k \in DOMAIN s} \cup {e}
<1>1. s \in Seq(S)
  BY SeqMonotonic DEF IsSeq
<1>2. <<e>> \in Seq(S)
  OBVIOUS
<1> HIDE DEF S
<1>3. <<e>> \o s \in Seq(S)
  BY <1>1, <1>2, ConcatProperties
<1>4. Len(<<e>>) = 1 /\ <<e>>[1] = e
  OBVIOUS
<1>5. Len(s) \in Nat /\ DOMAIN s = 1 .. Len(s)
  BY <1>1, LenProperties
<1>6. Len(<<e>> \o s) = Len(s) + 1
      /\ \A k \in 1 .. Len(s) + 1 : (<<e>> \o s)[k] = IF k <= 1 THEN <<e>>[k] ELSE s[k - 1]
  BY <1>1, <1>2, <1>4, <1>5, ConcatProperties
<1>7. \A k \in DOMAIN s : (<<e>> \o s)[k + 1] = s[k]
  BY <1>5, <1>6
<1>8. IsSeq(<<e>> \o s)
  BY <1>3, OwnElements
<1>9. DOMAIN (<<e>> \o s) = 1 .. Len(s) + 1
  BY <1>3, <1>6, LenProperties
<1>10. (<<e>> \o s)[1] = e
  BY <1>4, <1>5, <1>6
<1> QED
  BY <1>6, <1>7, <1>8, <1>9, <1>10

----------------------------------------------------------------------------
(***************************************************************************)
(* What an announcement does to the stream. An entry of the new stream is  *)
(* the event announced, or was there before: it then has the new event     *)
(* behind it, and what was behind it still is, or the snapshot knows.      *)
(***************************************************************************)

Holds(e, x) == e.kind = "snapshot" /\ x \in e.about

WasThere(e, k) ==
    \E j \in DOMAIN stream : \A x :
        /\ Carries(stream'[k], x) =>
              Carries(stream[j], x) /\ Says(stream'[k], x) = Says(stream[j], x)
        /\ Tells(e, x) => Later(k, x)'
        /\ Later(j, x) => Later(k, x)' \/ Holds(stream'[k], x)
        /\ Holds(stream[j], x) => Holds(stream'[k], x)

Announcement(e) ==
    /\ StreamTyped'
    /\ conn = "down" => stream' = <<>>
    /\ (\A k \in DOMAIN stream : IsEvent(stream[k])) =>
           \A k \in DOMAIN stream' : IsEvent(stream'[k])
    /\ \A x : Tells(e, x) \/ Later(0, x) => Later(0, x)' \/ x \in Unheard(e)
    /\ \A k \in DOMAIN stream' : stream'[k] = e \/ WasThere(e, k)

\* An event is no snapshot, and a snapshot is about nothing by itself.
LEMMA EventsAndSnapshots ==
    /\ \A e : IsEvent(e) => e.kind # "snapshot"
    /\ \A e : IsSnapshot(e) => e.kind = "snapshot" /\ \A x : ~Tells(e, x)
  BY DEF IsEvent, IsSnapshot, Tells

\* The queue after its oldest event made room.
LEMMA RoomMade ==
    ASSUME IsSeq(Queue), NEW e, conn # "down"
    PROVE  \E d \in {0, 1} : \E kept :
              /\ IsSeq(kept) /\ Len(kept) = Len(Queue) - d
              /\ kept = IF Full THEN Tail(Queue) ELSE Queue
              /\ \A k \in DOMAIN kept : k + d \in DOMAIN Queue /\ kept[k] = Queue[k + d]
              /\ d = 1 => 1 \in DOMAIN Queue /\ Unheard(e) = Subject(Queue[1])
<1>1. Len(Queue) \in Nat /\ DOMAIN Queue = 1 .. Len(Queue)
  BY SeqLength
<1>2. CASE Full
  <2>1. Queue # <<>>
    BY <1>1, <1>2, BoundsAssumption, EmptySeq DEF Full
  <2>2. /\ IsSeq(Tail(Queue)) /\ Head(Queue) = Queue[1] /\ 1 \in DOMAIN Queue
        /\ Len(Tail(Queue)) = Len(Queue) - 1
        /\ \A k \in DOMAIN Tail(Queue) : k + 1 \in DOMAIN Queue
                                         /\ Tail(Queue)[k] = Queue[k + 1]
    BY <2>1, RestOfSeq
  <2>3. Unheard(e) = Subject(Queue[1])
    BY <1>2, <2>2 DEF Unheard
  <2> QED
    BY <1>2, <2>2, <2>3
<1>3. CASE ~Full
  <2>1. Len(Queue) = Len(Queue) - 0
        /\ \A k \in DOMAIN Queue : k + 0 \in DOMAIN Queue /\ Queue[k] = Queue[k + 0]
    BY <1>1
  <2>2. Queue = IF Full THEN Tail(Queue) ELSE Queue
    BY <1>3
  <2>3. IsSeq(Queue)
    OBVIOUS
  <2> DEFINE q == Queue
  <2>4. /\ IsSeq(q) /\ Len(q) = Len(Queue) - 0
        /\ q = IF Full THEN Tail(Queue) ELSE Queue
        /\ \A k \in DOMAIN q : k + 0 \in DOMAIN Queue /\ q[k] = Queue[k + 0]
    BY <2>1, <2>2, <2>3
  <2> HIDE DEF q
  <2> QED
    BY <2>4
<1> QED
  BY <1>2, <1>3

LEMMA AnnouncedPlain ==
    ASSUME StreamTyped, NEW e, IsEvent(e), Announce(e), conn # "down", ~Seeded
    PROVE  Announcement(e)
<1>1. Queue = stream
  BY DEF Queue
<1>room. PICK d \in {0, 1} : \E kept :
              /\ IsSeq(kept) /\ Len(kept) = Len(stream) - d
              /\ kept = IF Full THEN Tail(stream) ELSE stream
              /\ \A k \in DOMAIN kept : k + d \in DOMAIN stream /\ kept[k] = stream[k + d]
              /\ d = 1 => 1 \in DOMAIN stream /\ Unheard(e) = Subject(stream[1])
  BY <1>1, RoomMade DEF StreamTyped
<1>2. PICK kept :
              /\ IsSeq(kept) /\ Len(kept) = Len(stream) - d
              /\ kept = IF Full THEN Tail(stream) ELSE stream
              /\ \A k \in DOMAIN kept : k + d \in DOMAIN stream /\ kept[k] = stream[k + d]
              /\ d = 1 => 1 \in DOMAIN stream /\ Unheard(e) = Subject(stream[1])
  BY <1>room
<1>3. IsSeq(Append(kept, e)) /\ DOMAIN Append(kept, e) = 1 .. Len(kept) + 1
      /\ Append(kept, e)[Len(kept) + 1] = e /\ \A k \in DOMAIN kept : Append(kept, e)[k] = kept[k]
  BY <1>2, SeqAndLast
<1>4. stream' = Append(kept, e)
  <2>1. stream' = <<>> \o Append(kept, e)
    BY <1>1, <1>2 DEF Announce
  <2> QED
    BY <1>3, <2>1, ConcatEmptySeq DEF IsSeq
<1>5. /\ Len(stream) \in Nat /\ DOMAIN stream = 1 .. Len(stream)
      /\ DOMAIN kept = 1 .. Len(stream) - d /\ DOMAIN stream' = 1 .. Len(stream) - d + 1
  BY <1>2, <1>3, <1>4, SeqLength DEF StreamTyped
<1>6. /\ stream'[Len(stream) - d + 1] = e /\ Len(stream) - d \in Nat
      /\ \A k \in 1 .. Len(stream) - d : k + d \in DOMAIN stream /\ stream'[k] = stream[k + d]
  <2>1. Len(kept) = Len(stream) - d /\ Len(kept) \in Nat
    BY <1>2, SeqLength
  <2>2. stream'[Len(stream) - d + 1] = e
    BY <1>3, <1>4, <2>1
  <2>3. ASSUME NEW k \in DOMAIN kept
        PROVE  k + d \in DOMAIN stream /\ stream'[k] = stream[k + d]
    BY <1>2, <1>3, <1>4
  <2> QED
    BY <1>5, <2>1, <2>2, <2>3
<1>7. \A k \in DOMAIN stream : IsEvent(stream[k])
  <2>1. CASE stream = <<>>
    BY <2>1
  <2>2. CASE stream # <<>>
    BY <2>2, RestOfSeq, EventsAndSnapshots DEF Seeded, StreamTyped
  <2> QED
    BY <2>1, <2>2
<1>8. StreamTyped' /\ \A k \in DOMAIN stream' : IsEvent(stream'[k])
  <2>1. IsSeq(stream')
    BY <1>3, <1>4
  <2>2. ASSUME NEW k \in DOMAIN stream' PROVE IsEvent(stream'[k])
    <3>1. k = Len(stream) - d + 1 \/ k \in 1 .. Len(stream) - d
      BY <1>5
    <3> QED
      BY <1>6, <1>7, <3>1
  <2> QED
    BY <2>1, <2>2 DEF StreamTyped
<1>9. ASSUME NEW x, Tells(e, x) \/ Later(0, x) PROVE Later(0, x)' \/ x \in Unheard(e)
  <2>1. CASE Tells(e, x)
    BY <1>5, <1>6, <2>1 DEF Later
  <2>2. CASE Later(0, x)
    <3>1. PICK j \in DOMAIN stream : Tells(stream[j], x)
      BY <2>2 DEF Later
    <3>2. CASE j - d \in 1 .. Len(stream) - d
      BY <1>5, <1>6, <3>1, <3>2 DEF Later
    <3>3. CASE j - d \notin 1 .. Len(stream) - d
      <4>1. d = 1 /\ j = 1
        BY <1>5, <3>3
      <4> QED
        BY <1>2, <3>1, <4>1 DEF Tells
    <3> QED
      BY <3>2, <3>3
  <2> QED
    BY <1>9, <2>1, <2>2
<1>10. ASSUME NEW k \in DOMAIN stream' PROVE stream'[k] = e \/ WasThere(e, k)
  <2> SUFFICES ASSUME k # Len(stream) - d + 1 PROVE WasThere(e, k)
    BY <1>6
  <2>1. k \in 1 .. Len(stream) - d
    BY <1>5, <1>6
  <2>4. k + d \in DOMAIN stream /\ stream'[k] = stream[k + d]
    BY <1>6, <2>1
  <2>2. ASSUME NEW x, Tells(e, x) PROVE Later(k, x)'
    BY <1>5, <1>6, <2>1, <2>2 DEF Later
  <2>3. ASSUME NEW x, Later(k + d, x) PROVE Later(k, x)'
    <3>1. PICK j \in DOMAIN stream : j > k + d /\ Tells(stream[j], x)
      BY <2>3 DEF Later
    <3>2. j - d \in 1 .. Len(stream) - d /\ j - d > k /\ (j - d) + d = j
      BY <1>5, <2>1, <3>1
    <3>3. stream'[j - d] = stream[j]
      BY <1>6, <3>2
    <3> QED
      BY <1>5, <3>1, <3>2, <3>3 DEF Later
  <2> QED
    BY <2>2, <2>3, <2>4 DEF WasThere
<1> QED
  BY <1>8, <1>9, <1>10 DEF Announcement

\* A snapshot that is about more is still one, and says the same.
LEMMA SnapshotGrows ==
    ASSUME NEW s, IsSnapshot(s), NEW items
    PROVE  LET t == [s EXCEPT !.about = @ \cup items]
           IN  /\ IsSnapshot(t) /\ t.name = s.name /\ t.values = s.values
               /\ t.about = s.about \cup items
<1> DEFINE t == [s EXCEPT !.about = @ \cup items]
           big == s.about \cup items
<1>1. DOMAIN s = {"kind", "name", "values", "about"}
  BY DEF IsSnapshot
<1>2. t = [f \in DOMAIN s |-> IF f = "about" THEN big ELSE s[f]]
  OBVIOUS
<1>3. /\ t.kind = s.kind /\ t.name = s.name /\ t.values = s.values /\ t.about = big
      /\ DOMAIN t = {"kind", "name", "values", "about"}
  BY <1>1, <1>2
<1>4. t = [kind |-> t.kind, name |-> t.name, values |-> t.values, about |-> t.about]
  BY <1>1, <1>2, <1>3
<1> HIDE DEF t
<1> QED
  BY <1>3, <1>4 DEF IsSnapshot, t

LEMMA AnnouncedBehindSnapshot ==
    ASSUME StreamTyped, NEW e, IsEvent(e), Announce(e), conn # "down", Seeded
    PROVE  Announcement(e)
<1> DEFINE first == [Head(stream) EXCEPT !.about = @ \cup Unheard(e)]
<1>1. /\ Queue = Tail(stream) /\ IsSeq(Queue) /\ Head(stream) = stream[1]
      /\ DOMAIN Queue = 1 .. Len(stream) - 1 /\ Len(Queue) = Len(stream) - 1
      /\ Len(stream) \in Nat \ {0} /\ DOMAIN stream = 1 .. Len(stream)
      /\ \A k \in DOMAIN Queue : k + 1 \in DOMAIN stream /\ Queue[k] = stream[k + 1]
  <2>1. stream # <<>> /\ Queue = Tail(stream)
    BY DEF Seeded, Queue
  <2>2. Len(stream) \in Nat /\ DOMAIN stream = 1 .. Len(stream)
    BY SeqLength DEF StreamTyped
  <2> QED
    BY <2>1, <2>2, RestOfSeq DEF StreamTyped
<1>room. PICK d \in {0, 1} : \E kept :
              /\ IsSeq(kept) /\ Len(kept) = Len(Queue) - d
              /\ kept = IF Full THEN Tail(Queue) ELSE Queue
              /\ \A k \in DOMAIN kept : k + d \in DOMAIN Queue /\ kept[k] = Queue[k + d]
              /\ d = 1 => 1 \in DOMAIN Queue /\ Unheard(e) = Subject(Queue[1])
  BY <1>1, RoomMade
<1>2. PICK kept :
              /\ IsSeq(kept) /\ Len(kept) = Len(Queue) - d
              /\ kept = IF Full THEN Tail(Queue) ELSE Queue
              /\ \A k \in DOMAIN kept : k + d \in DOMAIN Queue /\ kept[k] = Queue[k + d]
              /\ d = 1 => 1 \in DOMAIN Queue /\ Unheard(e) = Subject(Queue[1])
  BY <1>room
<1>3. IsSeq(Append(kept, e)) /\ DOMAIN Append(kept, e) = 1 .. Len(kept) + 1
      /\ Len(Append(kept, e)) = Len(kept) + 1
      /\ Append(kept, e)[Len(kept) + 1] = e /\ \A k \in DOMAIN kept : Append(kept, e)[k] = kept[k]
  BY <1>2, SeqAndLast
<1>4. stream' = <<first>> \o Append(kept, e)
  BY <1>2 DEF Announce
<1> HIDE DEF first
<1>5. /\ IsSeq(stream') /\ DOMAIN stream' = 1 .. Len(kept) + 2 /\ stream'[1] = first
      /\ \A k \in DOMAIN Append(kept, e) : stream'[k + 1] = Append(kept, e)[k]
  <2>1. (Len(kept) + 1) + 1 = Len(kept) + 2
    BY <1>2, SeqLength
  <2> QED
    BY <1>3, <1>4, <2>1, FirstAndSeq
<1>6. Len(kept) \in Nat /\ Len(kept) = Len(stream) - 1 - d /\ DOMAIN kept = 1 .. Len(kept)
  BY <1>1, <1>2, SeqLength
<1>7. stream'[Len(kept) + 2] = e
  <2>1. Len(kept) + 1 \in DOMAIN Append(kept, e) /\ (Len(kept) + 1) + 1 = Len(kept) + 2
    BY <1>3, <1>6
  <2> QED
    BY <1>3, <1>5, <2>1
<1>8. ASSUME NEW k \in 2 .. Len(kept) + 1
      PROVE  k + d \in 2 .. Len(stream) /\ stream'[k] = stream[k + d]
  <2>1. k - 1 \in DOMAIN kept /\ k - 1 \in DOMAIN Append(kept, e) /\ (k - 1) + 1 = k
    BY <1>3, <1>6
  <2>2. stream'[k] = kept[k - 1]
    BY <1>3, <1>5, <2>1
  <2>3. (k - 1) + d \in DOMAIN Queue /\ kept[k - 1] = Queue[(k - 1) + d]
    BY <1>2, <2>1
  <2>4. ((k - 1) + d) + 1 = k + d
    <3>1. k \in Int /\ d \in Int
      BY <1>6
    <3> QED
      BY <3>1
  <2>5. Queue[(k - 1) + d] = stream[k + d]
    BY <1>1, <2>3, <2>4
  <2>6. k + d \in 2 .. Len(stream)
    BY <1>1, <2>3, <2>4
  <2> QED
    BY <2>2, <2>3, <2>5, <2>6
<1>9. IsSnapshot(stream[1]) /\ \A k \in 2 .. Len(stream) : IsEvent(stream[k])
  BY <1>1, EventsAndSnapshots DEF StreamTyped, Seeded
<1>10. /\ IsSnapshot(first) /\ first.name = stream[1].name /\ first.values = stream[1].values
       /\ first.about = stream[1].about \cup Unheard(e)
  <2>1. first = [stream[1] EXCEPT !.about = @ \cup Unheard(e)]
    BY <1>1 DEF first
  <2> QED
    BY <1>9, <2>1, SnapshotGrows
<1>11. StreamTyped'
  <2>1. ASSUME NEW k \in DOMAIN stream'
        PROVE  IsEvent(stream'[k]) \/ (k = 1 /\ IsSnapshot(stream'[k]))
    <3>1. k = 1 \/ k = Len(kept) + 2 \/ k \in 2 .. Len(kept) + 1
      BY <1>5, <1>6
    <3> QED
      BY <1>5, <1>7, <1>8, <1>9, <1>10, <3>1
  <2> QED
    BY <1>5, <2>1 DEF StreamTyped
<1>12. ~ \A k \in DOMAIN stream : IsEvent(stream[k])
  BY <1>1, <1>9, EventsAndSnapshots
<1>13. ASSUME NEW j \in 2 .. Len(stream)
       PROVE  \/ j - d \in 2 .. Len(kept) + 1 /\ stream'[j - d] = stream[j]
              \/ j = 2 /\ Subject(stream[j]) = Unheard(e)
  <2>1. CASE j - d \in 2 .. Len(kept) + 1
    <3>1. (j - d) + d = j
      BY <1>2, <2>1
    <3> QED
      BY <1>8, <2>1, <3>1
  <2>2. CASE j - d \notin 2 .. Len(kept) + 1
    <3>1. d = 1 /\ j = 2
      BY <1>1, <1>6, <2>2
    <3>2. Unheard(e) = Subject(Queue[1]) /\ Queue[1] = stream[2]
      <4>1. 1 \in DOMAIN Queue /\ Unheard(e) = Subject(Queue[1])
        BY <1>2, <3>1
      <4>2. Queue[1] = stream[1 + 1]
        BY <1>1, <4>1
      <4> QED
        BY <4>1, <4>2
    <3> QED
      BY <3>1, <3>2
  <2> QED
    BY <2>1, <2>2
<1>14. ASSUME NEW x, Tells(e, x) \/ Later(0, x) PROVE Later(0, x)' \/ x \in Unheard(e)
  <2>1. CASE Tells(e, x)
    BY <1>5, <1>6, <1>7, <2>1 DEF Later
  <2>2. CASE Later(0, x)
    <3>1. PICK j \in DOMAIN stream : Tells(stream[j], x)
      BY <2>2 DEF Later
    <3>2. j \in 2 .. Len(stream)
      BY <1>1, <1>9, <3>1, EventsAndSnapshots
    <3>3. CASE j - d \in 2 .. Len(kept) + 1 /\ stream'[j - d] = stream[j]
      BY <1>5, <1>6, <3>1, <3>3 DEF Later
    <3> QED
      BY <1>13, <3>1, <3>2, <3>3 DEF Tells
  <2> QED
    BY <1>14, <2>1, <2>2
<1>15. ASSUME NEW k \in DOMAIN stream' PROVE stream'[k] = e \/ WasThere(e, k)
  <2>1. CASE k = Len(kept) + 2
    BY <1>7, <2>1
  <2>2. CASE k = 1
    <3>1. ASSUME NEW x, Tells(e, x) PROVE Later(k, x)'
      BY <1>5, <1>6, <1>7, <2>2, <3>1 DEF Later
    <3>2. ASSUME NEW x, Later(1, x) PROVE Later(k, x)' \/ Holds(stream'[k], x)
      <4>1. PICK j \in DOMAIN stream : j > 1 /\ Tells(stream[j], x)
        BY <3>2 DEF Later
      <4>2. j \in 2 .. Len(stream)
        BY <1>1, <4>1
      <4>3. CASE j - d \in 2 .. Len(kept) + 1 /\ stream'[j - d] = stream[j]
        <5>1. j - d \in DOMAIN stream' /\ j - d > 1
          BY <1>5, <1>6, <4>3
        <5> QED
          BY <2>2, <4>1, <4>3, <5>1 DEF Later
      <4>4. CASE Subject(stream[j]) = Unheard(e)
        BY <1>5, <1>10, <2>2, <4>1, <4>4 DEF Tells, Holds, IsSnapshot
      <4> QED
        BY <1>13, <4>2, <4>3, <4>4
    <3>3. ASSUME NEW x
          PROVE  /\ Carries(stream'[k], x) => Carries(stream[1], x)
                                              /\ Says(stream'[k], x) = Says(stream[1], x)
                 /\ Holds(stream[1], x) => Holds(stream'[k], x)
      <4>1. Holds(stream[1], x) => Holds(stream'[k], x)
        BY <1>5, <1>9, <1>10, <2>2 DEF Holds, IsSnapshot
      <4>2. Carries(stream'[k], x) => x \in SnapshotItems
        BY <1>5, <1>10, <2>2 DEF Carries, IsSnapshot
      <4>3. x \in SnapshotItems => Carries(stream[1], x)
        BY <1>9 DEF Carries, IsSnapshot
      <4>4. x \in SnapshotItems => x \notin StagePedals
        BY ItemsDiffer, KnobSets DEF SnapshotItems
      <4>5. x \in SnapshotItems => Says(stream'[k], x) = Says(stream[1], x)
        BY <1>5, <1>10, <2>2, <4>4 DEF Says
      <4> QED
        BY <4>1, <4>2, <4>3, <4>5
    <3>4. 1 \in DOMAIN stream
      BY <1>1
    <3> QED
      BY <3>1, <3>2, <3>3, <3>4 DEF WasThere
  <2>3. CASE k \in 2 .. Len(kept) + 1
    <3>1. k + d \in DOMAIN stream /\ stream'[k] = stream[k + d] /\ k + d \in 2 .. Len(stream)
      BY <1>1, <1>8, <2>3
    <3>2. ASSUME NEW x, Tells(e, x) PROVE Later(k, x)'
      BY <1>5, <1>6, <1>7, <2>3, <3>2 DEF Later
    <3>3. ASSUME NEW x, Later(k + d, x) PROVE Later(k, x)'
      <4>1. PICK j \in DOMAIN stream : j > k + d /\ Tells(stream[j], x)
        BY <3>3 DEF Later
      <4>2. j \in 2 .. Len(stream) /\ j # 2
        BY <1>1, <2>3, <3>1, <4>1
      <4>3. j - d \in 2 .. Len(kept) + 1 /\ stream'[j - d] = stream[j]
        BY <1>13, <4>2
      <4>4. j - d \in DOMAIN stream'
        BY <1>5, <1>6, <4>3
      <4>5. j \in Int /\ k \in Int /\ d \in Int /\ j > k + d
        BY <1>6, <2>3, <4>1, <4>2
      <4>6. j - d > k
        BY <4>5
      <4> QED
        BY <4>1, <4>3, <4>4, <4>6 DEF Later
    <3> QED
      BY <3>1, <3>2, <3>3 DEF WasThere
  <2> QED
    BY <1>5, <1>6, <2>1, <2>2, <2>3
<1> QED
  BY <1>11, <1>12, <1>14, <1>15 DEF Announcement

LEMMA Announced ==
    ASSUME StreamTyped, OffLine, NEW e, IsEvent(e), Announce(e)
    PROVE  Announcement(e)
<1>1. CASE conn = "down"
  <2>1. stream = <<>> /\ stream' = stream /\ Unheard(e) = Subject(e)
    BY <1>1 DEF OffLine, Announce, Unheard
  <2>2. DOMAIN stream = {}
    BY <2>1
  <2> QED
    BY <2>1, <2>2 DEF Announcement, StreamTyped, Later, Tells
<1>2. CASE conn # "down"
  BY <1>2, AnnouncedPlain, AnnouncedBehindSnapshot
<1> QED
  BY <1>1, <1>2

----------------------------------------------------------------------------
(***************************************************************************)
(* The three ways a step treats the items: it leaves the stream alone, it  *)
(* announces an event, or it takes one. ShowsNext is Shows after the step, *)
(* of a value from before it.                                              *)
(***************************************************************************)

ShowsNext(x, v) ==
    IF x = "current" THEN current' = v
    ELSE IF x \in StagePedals THEN enabled'[x] = v ELSE shown'[x] = FromEngine(x, v)

LEMMA ShowsAfter ==
    ASSUME NEW x, ShowsNext(x, Truth(x)') PROVE Shows(x, Truth(x))'
  BY DEF ShowsNext, Shows

LEMMA SamePage ==
    ASSUME UNCHANGED <<shown, enabled, current>>, NEW x, NEW v, Shows(x, v)
    PROVE  ShowsNext(x, v)
  BY DEF ShowsNext, Shows

LEMMA SameTruth ==
    ASSUME UNCHANGED daemon, NEW x PROVE Truth(x)' = Truth(x)
  BY DEF daemon, Truth

LEMMA QuietKept ==
    ASSUME LastWord, SeedKnows, UNCHANGED <<stream, daemon, seed, overtaken>>
    PROVE  LastWord' /\ SeedKnows'
<1>1. \A x : Truth(x)' = Truth(x)
  BY SameTruth
<1>2. \A k, x : Later(k, x)' <=> Later(k, x)
  BY DEF Later
<1>3. LastWord'
  BY <1>1, <1>2 DEF LastWord
<1>4. SeedKnows'
  BY <1>1, <1>2 DEF SeedKnows
<1> QED
  BY <1>3, <1>4

\* What an event changes it tells of, and what it says is so.
LEMMA NewsKept ==
    ASSUME StreamTyped, OffLine, LastWord, PageKnows, SeedKnows, NEW e, IsEvent(e), Announce(e),
           UNCHANGED <<page, conn, seed>>,
           \A x \in Everything : Truth(x)' = Truth(x) \/ Tells(e, x),
           \A x \in Everything : Carries(e, x) => Says(e, x) = Truth(x)',
           \A x \in Everything : Asked(x) => Asked(x)' \/ Tells(e, x)
    PROVE  StreamTyped' /\ OffLine' /\ LastWord' /\ PageKnows' /\ SeedKnows'
<1>1. Announcement(e)
  BY Announced
<1>2. behind' = behind \cup Unheard(e)
  BY DEF Announce
<1>3. OffLine'
  BY <1>1, <1>2 DEF OffLine, Announcement
<1>4. LastWord'
  <2> SUFFICES ASSUME NEW k \in DOMAIN stream', NEW x \in Everything, Carries(stream'[k], x)
               PROVE  \/ Says(stream'[k], x) = Truth(x)' \/ Later(k, x)'
                      \/ Holds(stream'[k], x)
    BY DEF LastWord, Holds
  <2>1. CASE stream'[k] = e
    BY <2>1
  <2>2. CASE WasThere(e, k)
    <3>1. PICK j \in DOMAIN stream :
              /\ Carries(stream[j], x) /\ Says(stream'[k], x) = Says(stream[j], x)
              /\ Tells(e, x) => Later(k, x)'
              /\ Later(j, x) => Later(k, x)' \/ Holds(stream'[k], x)
              /\ Holds(stream[j], x) => Holds(stream'[k], x)
      BY <2>2 DEF WasThere
    <3>2. Says(stream[j], x) = Truth(x) \/ Later(j, x) \/ Holds(stream[j], x)
      BY <3>1 DEF LastWord, Holds
    <3>3. Truth(x)' = Truth(x) \/ Tells(e, x)
      OBVIOUS
    <3> QED
      BY <3>1, <3>2, <3>3
  <2> QED
    BY <1>1, <2>1, <2>2 DEF Announcement
<1>5. ASSUME NEW x, Tells(e, x) \/ Later(0, x) PROVE Later(0, x)' \/ x \in behind'
  BY <1>1, <1>2, <1>5 DEF Announcement
<1>6. PageKnows'
  <2> SUFFICES ASSUME NEW x \in Everything,
                      x \notin behind', x \notin (DOMAIN pending)', ~Asked(x)', ~Later(0, x)'
               PROVE  Shows(x, Truth(x))'
    BY DEF PageKnows
  <2>1. ~Tells(e, x) /\ ~Later(0, x)
    BY <1>5
  <2>2. Truth(x)' = Truth(x) /\ ~Asked(x)
    BY <2>1
  <2>3. x \notin behind /\ x \notin DOMAIN pending
    BY <1>2 DEF page
  <2>4. Shows(x, Truth(x))
    BY <2>1, <2>2, <2>3 DEF PageKnows
  <2> QED
    BY <2>2, <2>4, SamePage, ShowsAfter DEF page
<1>7. SeedKnows'
  <2> SUFFICES ASSUME seed.state = "read", NEW x \in SeedItems, x \notin overtaken', ~Later(0, x)'
               PROVE  Says(seed, x) = Truth(x)'
    BY DEF SeedKnows, Says
  <2>1. overtaken' = overtaken \cup Unheard(e)
    BY DEF Announce, Overtake
  <2>2. ~Tells(e, x) /\ ~Later(0, x) /\ x \notin overtaken
    BY <1>1, <2>1 DEF Announcement
  <2>3. x \in Everything
    BY KnobSets DEF SeedItems, Everything
  <2> QED
    BY <2>2, <2>3 DEF SeedKnows
<1> QED
  BY <1>1, <1>3, <1>4, <1>6, <1>7 DEF Announcement

\* What a step that takes the first event leaves of the stream.
LEMMA Taken ==
    ASSUME StreamTyped, stream # <<>>, stream' = Tail(stream)
    PROVE  /\ StreamTyped' /\ \A k \in DOMAIN stream' : IsEvent(stream'[k])
           /\ \A k \in DOMAIN stream' : k + 1 \in DOMAIN stream /\ stream'[k] = stream[k + 1]
           /\ \A x : \A k \in Nat : Later(k + 1, x) => Later(k, x)'
           /\ \A x : Later(0, x) => Later(0, x)' \/ Tells(Head(stream), x)
           /\ Head(stream) = stream[1] /\ 1 \in DOMAIN stream
<1>1. /\ IsSeq(stream') /\ Head(stream) = stream[1] /\ 1 \in DOMAIN stream
      /\ DOMAIN stream' = 1 .. Len(stream) - 1
      /\ \A k \in DOMAIN stream' : k + 1 \in DOMAIN stream /\ stream'[k] = stream[k + 1]
  BY RestOfSeq DEF StreamTyped
<1>2. Len(stream) \in Nat /\ DOMAIN stream = 1 .. Len(stream)
  BY SeqLength DEF StreamTyped
<1>3. \A k \in DOMAIN stream' : IsEvent(stream'[k])
  <2> SUFFICES ASSUME NEW k \in DOMAIN stream' PROVE IsEvent(stream[k + 1])
    BY <1>1
  <2>1. k + 1 \in DOMAIN stream /\ k + 1 # 1
    BY <1>1
  <2> QED
    BY <2>1 DEF StreamTyped
<1>4. ASSUME NEW j \in DOMAIN stream, j # 1
      PROVE  j - 1 \in DOMAIN stream' /\ stream'[j - 1] = stream[j]
  <2>1. j - 1 \in DOMAIN stream' /\ (j - 1) + 1 = j
    BY <1>1, <1>2, <1>4
  <2> QED
    BY <1>1, <2>1
<1>5. ASSUME NEW x, NEW k \in Nat, Later(k + 1, x) PROVE Later(k, x)'
  <2>1. PICK j \in DOMAIN stream : j > k + 1 /\ Tells(stream[j], x)
    BY <1>5 DEF Later
  <2>2. j # 1 /\ j - 1 > k
    BY <1>2, <2>1
  <2> QED
    BY <1>4, <2>1, <2>2 DEF Later
<1>6. ASSUME NEW x, Later(0, x), ~Tells(Head(stream), x) PROVE Later(0, x)'
  <2>1. PICK j \in DOMAIN stream : Tells(stream[j], x)
    BY <1>6 DEF Later
  <2>2. j # 1 /\ j - 1 > 0
    BY <1>1, <1>2, <1>6, <2>1
  <2> QED
    BY <1>4, <2>1, <2>2 DEF Later
<1>7. StreamTyped'
  BY <1>1, <1>3 DEF StreamTyped
<1> QED
  BY <1>1, <1>3, <1>5, <1>6, <1>7

\* What the page is told it shows, or it stays behind with it.
LEMMA TakenKept ==
    ASSUME StreamTyped, LastWord, PageKnows, SeedKnows,
           stream # <<>>, stream' = Tail(stream), UNCHANGED <<seed, net, daemon>>,
           \A x \in Everything :
              IF Carries(Head(stream), x)
              THEN /\ ShowsNext(x, Says(Head(stream), x)) \/ x \in behind'
                   /\ Holds(Head(stream), x) => x \in behind'
              ELSE /\ x \in behind \/ Tells(Head(stream), x) => x \in behind'
                   /\ \A v : Shows(x, v) => ShowsNext(x, v)
                   /\ x \in DOMAIN pending => x \in DOMAIN pending' \/ x \in behind',
           seed.state = "read" =>
              /\ overtaken \subseteq overtaken'
              /\ \A x \in SeedItems : Tells(Head(stream), x) => x \in overtaken'
    PROVE  LastWord' /\ PageKnows' /\ SeedKnows'
<1> DEFINE e == Head(stream)
<1>1. /\ \A k \in DOMAIN stream' : k + 1 \in DOMAIN stream /\ stream'[k] = stream[k + 1]
      /\ \A x : \A k \in Nat : Later(k + 1, x) => Later(k, x)'
      /\ \A x : Later(0, x) => Later(0, x)' \/ Tells(e, x)
      /\ e = stream[1] /\ 1 \in DOMAIN stream
      /\ DOMAIN stream' \subseteq Nat
      /\ \A k \in DOMAIN stream' : IsEvent(stream'[k])
  <2>1. DOMAIN stream' \subseteq Nat
    BY Taken, SeqLength DEF StreamTyped
  <2> QED
    BY <2>1, Taken
<1> HIDE DEF e
<1>2. \A x : Truth(x)' = Truth(x)
  BY SameTruth
<1>3. LastWord'
  <2> SUFFICES ASSUME NEW k \in DOMAIN stream', NEW x \in Everything, Carries(stream'[k], x)
               PROVE  Says(stream'[k], x) = Truth(x) \/ Later(k, x)'
    BY <1>2 DEF LastWord
  <2>1. k + 1 \in DOMAIN stream /\ stream'[k] = stream[k + 1] /\ k \in Nat
    BY <1>1
  <2>2. Says(stream[k + 1], x) = Truth(x) \/ Later(k + 1, x)
    BY <1>1, <2>1, EventsAndSnapshots DEF LastWord
  <2> QED
    BY <1>1, <2>1, <2>2
<1>4. PageKnows'
  <2> SUFFICES ASSUME NEW x \in Everything,
                      x \notin behind', x \notin DOMAIN pending', ~Asked(x)', ~Later(0, x)'
               PROVE  ShowsNext(x, Truth(x))
    BY <1>2, ShowsAfter DEF PageKnows
  <2>1. CASE Carries(e, x)
    <3>1. ~Holds(e, x) /\ ShowsNext(x, Says(e, x))
      BY <2>1 DEF e
    <3>2. ~Later(1, x)
      <4>1. Later(0 + 1, x) => Later(0, x)'
        BY <1>1
      <4>2. 0 + 1 = 1
        OBVIOUS
      <4> QED
        BY <4>1, <4>2
    <3>3. Says(e, x) = Truth(x)
      BY <1>1, <2>1, <3>1, <3>2 DEF LastWord, Holds
    <3> QED
      BY <3>1, <3>3
  <2>2. CASE ~Carries(e, x)
    <3>1. ~Tells(e, x) /\ x \notin behind /\ x \notin DOMAIN pending
      BY <2>2 DEF e
    <3>2. ~Asked(x) /\ ~Later(0, x)
      BY <1>1, <3>1 DEF Asked
    <3>3. Shows(x, Truth(x))
      BY <3>1, <3>2 DEF PageKnows
    <3> QED
      BY <2>2, <3>3 DEF e
  <2> QED
    BY <2>1, <2>2
<1>5. SeedKnows'
  <2> SUFFICES ASSUME seed.state = "read", NEW x \in SeedItems, x \notin overtaken', ~Later(0, x)'
               PROVE  Says(seed, x) = Truth(x)
    BY <1>2 DEF SeedKnows, Says
  <2>1. ~Tells(e, x) /\ x \notin overtaken
    BY DEF e
  <2> QED
    BY <1>1, <2>1 DEF SeedKnows
<1> QED
  BY <1>3, <1>4, <1>5

----------------------------------------------------------------------------
(***************************************************************************)
(* The daemon's steps are news: the event is about all that changes, and   *)
(* says what is so after the step.                                         *)
(***************************************************************************)

News(e) ==
    /\ IsEvent(e) /\ Announce(e)
    /\ \A x \in Everything : Truth(x)' = Truth(x) \/ Tells(e, x)
    /\ \A x \in Everything : Carries(e, x) => Says(e, x) = Truth(x)'

LEMMA PutTyped ==
    ASSUME DaemonTyped, NEW i \in Knobs, NEW v, stored' = Put(stored, i, v), UNCHANGED reg
    PROVE  /\ Table(stored', Knobs)
           /\ \A q, r \in Patches, j \in GlobalKnobs : stored'[q][j] = stored'[r][j]
           /\ stored'[reg.current][i] = v
           /\ \A j \in Knobs \ {i} : stored'[reg.current][j] = stored[reg.current][j]
<1>1. \A q \in Patches : Total(stored[q], Knobs) /\ DOMAIN stored[q] = Knobs
  BY TableShape DEF DaemonTyped, Total
<1>2. \A q \in Patches :
         stored'[q] = IF q = reg.current \/ i \in GlobalKnobs
                      THEN [stored[q] EXCEPT ![i] = v] ELSE stored[q]
  BY DEF Put
<1>3. \A q \in Patches, j \in Knobs :
         stored'[q][j] = IF (q = reg.current \/ i \in GlobalKnobs) /\ j = i THEN v
                         ELSE stored[q][j]
  BY <1>1, <1>2
<1>4. Table(stored', Knobs)
  <2>1. stored' = [q \in Patches |-> stored'[q]]
    BY DEF Put
  <2>2. ASSUME NEW q \in Patches PROVE Total(stored'[q], Knobs)
    BY <1>1, <1>2 DEF Total
  <2> QED
    BY <2>1, <2>2, TableShape
<1>5. GlobalKnobs \subseteq Knobs /\ reg.current \in Patches
  BY KnobSets DEF DaemonTyped
<1>6. ASSUME NEW q \in Patches, NEW r \in Patches, NEW j \in GlobalKnobs
      PROVE  stored'[q][j] = stored'[r][j]
  <2>1. stored[q][j] = stored[r][j]
    BY DEF DaemonTyped
  <2> QED
    BY <1>3, <1>5, <2>1
<1> QED
  BY <1>3, <1>4, <1>5, <1>6

LEMMA SetIsNews ==
    ASSUME DaemonTyped, NEW i \in Knobs, NEW v, DaemonSet(i, v)
    PROVE  DaemonTyped' /\ \E e : News(e) /\ Tells(e, i)
<1>1. stored' = Put(stored, i, v) /\ UNCHANGED <<reg, stageOn>> /\ Announce(ValueEvent(i, v))
  BY DEF DaemonSet
<1>2. /\ Table(stored', Knobs)
      /\ \A q, r \in Patches, j \in GlobalKnobs : stored'[q][j] = stored'[r][j]
      /\ stored'[reg.current][i] = v
      /\ \A j \in Knobs \ {i} : stored'[reg.current][j] = stored[reg.current][j]
  BY <1>1, PutTyped
<1>3. DaemonTyped'
  BY <1>1, <1>2 DEF DaemonTyped
<1> DEFINE e == ValueEvent(i, v)
<1>4. e.kind = "value" /\ DOMAIN e.values = {i} /\ e.values[i] = v
  BY DEF ValueEvent
<1>5. Announce(e)
  BY <1>1
<1> HIDE DEF e
<1>6. IsEvent(e) /\ (\A x : Tells(e, x) <=> x = i) /\ (\A x : Carries(e, x) <=> x = i)
  BY <1>4 DEF IsEvent, Tells, Carries, Subject
<1>7. i # "current" /\ i \notin StagePedals /\ Says(e, i) = v
  BY <1>4, ItemsDiffer DEF Says
<1>8. Truth(i)' = v
  BY <1>1, <1>2, <1>7 DEF Truth
<1>9. ASSUME NEW x \in Everything, x # i PROVE Truth(x)' = Truth(x)
  BY <1>1, <1>2, <1>9 DEF Truth, Everything
<1>10. News(e)
  BY <1>5, <1>6, <1>7, <1>8, <1>9 DEF News
<1> QED
  BY <1>3, <1>6, <1>10

LEMMA EnableIsNews ==
    ASSUME DaemonTyped, NEW p \in StagePedals, NEW on, DaemonEnable(p, on)
    PROVE  DaemonTyped' /\ \E e : News(e) /\ Tells(e, p)
<1>1. /\ stageOn' = [stageOn EXCEPT ![reg.current][p] = on]
      /\ UNCHANGED <<reg, stored>> /\ Announce(EnableEvent(p, on))
  BY DEF DaemonEnable
<1>2. /\ DOMAIN stageOn = Patches
      /\ \A q \in Patches : Total(stageOn[q], StagePedals) /\ DOMAIN stageOn[q] = StagePedals
  BY TableShape DEF DaemonTyped, Total
<1>3. reg.current \in Patches
  BY DEF DaemonTyped
<1>4. \A q \in Patches : stageOn'[q] = IF q = reg.current THEN [stageOn[q] EXCEPT ![p] = on]
                                       ELSE stageOn[q]
  BY <1>1, <1>2
<1>5. Table(stageOn', StagePedals)
  <2>1. stageOn' = [q \in Patches |-> stageOn'[q]]
    BY <1>1, <1>2
  <2>2. ASSUME NEW q \in Patches PROVE Total(stageOn'[q], StagePedals)
    BY <1>2, <1>4 DEF Total
  <2> QED
    BY <2>1, <2>2, TableShape
<1>6. DaemonTyped'
  BY <1>1, <1>5 DEF DaemonTyped
<1> DEFINE e == EnableEvent(p, on)
<1>7. e.kind = "enable" /\ DOMAIN e.stages = {p} /\ e.stages[p] = on
  BY DEF EnableEvent
<1>8. Announce(e)
  BY <1>1
<1> HIDE DEF e
<1>9. IsEvent(e) /\ (\A x : Tells(e, x) <=> x = p) /\ (\A x : Carries(e, x) <=> x = p)
  BY <1>7 DEF IsEvent, Tells, Carries, Subject
<1>10. p # "current" /\ Says(e, p) = on
  BY <1>7, ItemsDiffer DEF Says
<1>11. Truth(p)' = on
  BY <1>1, <1>2, <1>3, <1>4, <1>10 DEF Truth
<1>12. ASSUME NEW x \in Everything, x # p PROVE Truth(x)' = Truth(x)
  <2>1. x \in StagePedals => stageOn'[reg.current][x] = stageOn[reg.current][x]
    BY <1>2, <1>3, <1>4, <1>12
  <2> QED
    BY <1>1, <2>1 DEF Truth
<1>13. News(e)
  BY <1>8, <1>9, <1>10, <1>11, <1>12 DEF News
<1> QED
  BY <1>6, <1>9, <1>13

\* The selected patch becomes another, by a select or because a load failed:
\* only what is global stays what it was.
LEMMA OtherPatch ==
    ASSUME DaemonTyped, UNCHANGED <<stored, stageOn>>, reg'.current \in Patches,
           NEW x \in Everything, x \notin PatchItems
    PROVE  Truth(x)' = Truth(x)
<1>1. x \in GlobalKnobs /\ x # "current" /\ x \notin StagePedals
  BY KnobSets DEF PatchItems, Everything
<1>2. stored[reg'.current][x] = stored[reg.current][x]
  BY <1>1 DEF DaemonTyped
<1> QED
  BY <1>1, <1>2 DEF Truth

LEMMA SelectIsNews ==
    ASSUME DaemonTyped, NEW q \in Patches, DaemonSelect(q)
    PROVE  DaemonTyped' /\ \E e : News(e) /\ Tells(e, "current")
<1>1. /\ reg' = [reg EXCEPT !.current = q, !.loading = TRUE]
      /\ UNCHANGED <<stored, stageOn>> /\ Announce(PatchEvent(q))
  BY DEF DaemonSelect
<1>2. /\ IsReg(reg')
      /\ reg'.current = q /\ reg'.active = reg.active
  BY <1>1 DEF DaemonTyped, IsReg
<1>3. DaemonTyped'
  BY <1>1, <1>2 DEF DaemonTyped
<1> DEFINE e == PatchEvent(q)
<1>4. /\ e.kind = "patch" /\ e.name = q /\ e.values = [i \in PatchKnobs |-> stored[q][i]]
      /\ e.stages = stageOn[q] /\ Announce(e)
  BY <1>1 DEF PatchEvent
<1> HIDE DEF e
<1>5. DOMAIN e.values = PatchKnobs /\ DOMAIN e.stages = StagePedals
  <2>1. Total(stageOn[q], StagePedals)
    BY TableShape DEF DaemonTyped
  <2>2. DOMAIN stageOn[q] = StagePedals
    BY <2>1 DEF Total
  <2> QED
    BY <1>4, <2>2
<1>6. IsEvent(e) /\ \A x : (Tells(e, x) <=> x \in PatchItems) /\ (Carries(e, x) <=> x \in PatchItems)
  BY <1>4, <1>5 DEF IsEvent, Tells, Carries, Subject, PatchItems
<1>7. ASSUME NEW x \in PatchItems PROVE Says(e, x) = Truth(x)'
  BY <1>1, <1>2, <1>4, ItemsDiffer, KnobSets DEF Says, Truth, PatchItems
<1>8. News(e)
  BY <1>1, <1>2, <1>4, <1>6, <1>7, OtherPatch DEF News
<1> QED
  BY <1>3, <1>6, <1>8 DEF PatchItems

LEMMA LoadEndIsNews ==
    ASSUME DaemonTyped, LoadEnds
    PROVE  DaemonTyped' /\ \E e : News(e)
<1>1. CASE LoadActive
  <2>1. /\ reg' = [reg EXCEPT !.active = reg.current, !.loading = FALSE]
        /\ UNCHANGED <<stored, stageOn>> /\ Announce(BareEvent({}))
    BY <1>1 DEF LoadActive
  <2>2. /\ IsReg(reg')
        /\ reg'.current = reg.current /\ reg'.active = reg.current
    BY <2>1 DEF DaemonTyped, IsReg
  <2>3. DaemonTyped'
    BY <2>1, <2>2 DEF DaemonTyped
  <2>4. \A x : Truth(x)' = Truth(x)
    BY <2>1, <2>2 DEF Truth
  <2>5. IsEvent(BareEvent({})) /\ \A x : ~Carries(BareEvent({}), x)
    BY DEF IsEvent, BareEvent, Carries
  <2>6. News(BareEvent({}))
    BY <2>1, <2>4, <2>5 DEF News
  <2> QED
    BY <2>3, <2>6
<1>2. CASE LoadFails
  <2> DEFINE e == BareEvent(PatchItems)
  <2>1. /\ reg' = [reg EXCEPT !.current = reg.active, !.loading = FALSE]
        /\ UNCHANGED <<stored, stageOn>> /\ Announce(e)
    BY <1>2 DEF LoadFails, PatchItems
  <2>2. /\ IsReg(reg')
        /\ reg'.current = reg.active /\ reg'.active = reg.active
    BY <2>1 DEF DaemonTyped, IsReg
  <2>3. DaemonTyped'
    BY <2>1, <2>2 DEF DaemonTyped
  <2>4. reg'.current \in Patches
    BY <2>2 DEF DaemonTyped
  <2>5. IsEvent(e) /\ \A x : ~Carries(e, x) /\ (Tells(e, x) <=> x \in PatchItems)
    BY DEF IsEvent, BareEvent, Carries, Tells, Subject
  <2>6. \A x \in Everything : x \notin PatchItems => Truth(x)' = Truth(x)
    BY <2>1, <2>4, OtherPatch
  <2> HIDE DEF e
  <2>7. News(e)
    BY <2>1, <2>5, <2>6 DEF News
  <2> QED
    BY <2>3, <2>7
<1> QED
  BY <1>1, <1>2 DEF LoadEnds

\* A step that is news, and leaves the page and its own link alone.
LEMMA NewsStep ==
    ASSUME DashInv, NEW e, News(e), UNCHANGED <<page, conn, seed>>, net' \subseteq net,
           \A x \in Everything : Asked(x) => Asked(x)' \/ Tells(e, x), DaemonTyped'
    PROVE  DashInv'
<1>1. StreamTyped' /\ OffLine' /\ LastWord' /\ PageKnows' /\ SeedKnows'
  BY NewsKept DEF DashInv, Typed, News
<1>2. PageTyped' /\ SeedTyped'
  BY DEF DashInv, Typed, PageTyped, SeedTyped, page
<1> QED
  BY <1>1, <1>2 DEF DashInv, Typed

LEMMA LoadStep ==
    ASSUME DashInv, LoadEnds
    PROVE  DashInv'
<1>1. UNCHANGED <<page, conn, seed, net>>
  BY DEF LoadEnds, LoadActive, LoadFails, DaemonStep
<1>2. DaemonTyped' /\ \E e : News(e)
  BY LoadEndIsNews DEF DashInv, Typed
<1>3. \A x : Asked(x)' <=> Asked(x)
  BY <1>1 DEF Asked
<1> QED
  BY <1>1, <1>2, <1>3, NewsStep

LEMMA OtherClientStep ==
    ASSUME DashInv, OtherClient
    PROVE  DashInv'
<1>1. UNCHANGED <<page, conn, seed, net>>
  BY DEF OtherClient, DaemonStep
<1>2. DaemonTyped' /\ \E e : News(e)
  BY SetIsNews, EnableIsNews, SelectIsNews DEF DashInv, Typed, OtherClient
<1>3. \A x : Asked(x)' <=> Asked(x)
  BY <1>1 DEF Asked
<1> QED
  BY <1>1, <1>2, <1>3, NewsStep

\* A request that is served: what it asked for is news.
LEMMA ServeStep ==
    ASSUME DashInv, NEW m \in net, Serve(m)
    PROVE  DashInv'
<1>1. UNCHANGED <<page, conn, seed>> /\ net' = net \ {m}
  BY DEF Serve, DaemonStep
<1>2. IsRequest(m) /\ DaemonTyped
  BY DEF DashInv, Typed, PageTyped
<1>3. DaemonTyped' /\ \E e : News(e) /\ \A x : Asks(m, x) => Tells(e, x)
  <2>1. CASE m.kind = "set" /\ DaemonSet(m.knob, m.value)
    <3>1. m.knob \in Knobs
      BY <1>2, <2>1 DEF IsRequest
    <3>2. DaemonTyped' /\ \E e : News(e) /\ Tells(e, m.knob)
      BY <1>2, <2>1, <3>1, SetIsNews
    <3> QED
      BY <2>1, <3>2 DEF Asks
  <2>2. CASE m.kind = "enable" /\ DaemonEnable(m.pedal, m.on)
    <3>1. m.pedal \in StagePedals
      BY <1>2, <2>2 DEF IsRequest
    <3>2. DaemonTyped' /\ \E e : News(e) /\ Tells(e, m.pedal)
      BY <1>2, <2>2, <3>1, EnableIsNews
    <3> QED
      BY <2>2, <3>2 DEF Asks
  <2>3. CASE m.kind = "select" /\ DaemonSelect(m.name)
    <3>1. m.name \in Patches
      BY <1>2, <2>3 DEF IsRequest
    <3>2. DaemonTyped' /\ \E e : News(e) /\ Tells(e, "current")
      BY <1>2, <2>3, <3>1, SelectIsNews
    <3> QED
      BY <2>3, <3>2 DEF Asks
  <2> QED
    BY <2>1, <2>2, <2>3 DEF Serve
<1>4. PICK e : News(e) /\ \A x : Asks(m, x) => Tells(e, x)
  BY <1>3
<1>5. \A x : Asked(x) => Asked(x)' \/ Tells(e, x)
  BY <1>1, <1>4 DEF Asked
<1> QED
  BY <1>1, <1>3, <1>4, <1>5, NewsStep

----------------------------------------------------------------------------
(***************************************************************************)
(* The page takes an event.                                                *)
(***************************************************************************)

\* Values that are taken, and those ignored under a guard or a bypass.
LEMMA ValuesTaken ==
    ASSUME NEW values, NEW skip, Take(values, skip), NEW x \in Knobs
    PROVE  /\ x \in DOMAIN values => shown'[x] = FromEngine(x, values[x])
                                     \/ x \in Ignored(values, skip)
           /\ x \notin DOMAIN values => shown'[x] = shown[x]
  BY DEF Take, Ignored

LEMMA TakeTotal ==
    ASSUME NEW values, NEW skip, Take(values, skip) PROVE Total(shown', Knobs)
  BY DEF Take, Total

LEMMA StagesTotal ==
    ASSUME NEW stages, enabled' = Stages(stages)
    PROVE  /\ Total(enabled', Pedals)
           /\ \A p \in Pedals : enabled'[p] = IF p \in DOMAIN stages THEN stages[p] ELSE enabled[p]
  BY DEF Stages, Total

\* What a step needs besides the items to keep the types.
LEMMA TakenTyped ==
    ASSUME Typed, stream # <<>>, stream' = Tail(stream), conn = "live",
           UNCHANGED <<conn, seed, net, daemon>>,
           Total(shown', Knobs), Total(enabled', Pedals), DOMAIN pending' \subseteq Knobs
    PROVE  Typed'
<1>1. StreamTyped'
  BY Taken DEF Typed
<1>2. PageTyped' /\ DaemonTyped' /\ SeedTyped' /\ OffLine'
  BY DEF Typed, PageTyped, DaemonTyped, SeedTyped, OffLine, daemon
<1> QED
  BY <1>1, <1>2 DEF Typed

LEMMA ReceiveFacts ==
    ASSUME NEW kind, Receive(kind), StreamTyped
    PROVE  /\ conn = "live" /\ stream # <<>> /\ stream' = Tail(stream)
           /\ UNCHANGED <<conn, seed, net, daemon>>
           /\ Head(stream).kind = kind
           /\ IsEvent(Head(stream)) \/ IsSnapshot(Head(stream))
  BY Taken DEF Receive, StreamTyped

LEMMA ReceiveValueStep ==
    ASSUME DashInv, ReceiveValue
    PROVE  DashInv'
<1> DEFINE e == Head(stream)
           skip == guard \cup Parked
<1>1. /\ conn = "live" /\ stream # <<>> /\ stream' = Tail(stream)
      /\ UNCHANGED <<conn, seed, net, daemon>>
      /\ e.kind = "value" /\ DOMAIN e.values \subseteq Knobs
  BY ReceiveFacts DEF ReceiveValue, DashInv, Typed, IsEvent, IsSnapshot
<1>2. /\ Take(e.values, skip)
      /\ behind' = (behind \ DOMAIN e.values) \cup Ignored(e.values, skip)
      /\ Overtake(DOMAIN e.values) /\ UNCHANGED <<enabled, current, pending>>
  BY DEF ReceiveValue
<1> HIDE DEF e, skip
<1>3. \A x : (Tells(e, x) <=> x \in DOMAIN e.values) /\ (Carries(e, x) <=> x \in DOMAIN e.values)
             /\ ~Holds(e, x)
  BY <1>1 DEF Tells, Carries, Subject, Holds
<1>4. ASSUME NEW x \in Everything, x \in DOMAIN e.values
      PROVE  ShowsNext(x, Says(e, x)) \/ x \in behind'
  <2>1. x \in Knobs /\ x # "current" /\ x \notin StagePedals
    BY <1>1, <1>4, ItemsDiffer
  <2> QED
    BY <1>2, <1>4, <2>1, ValuesTaken DEF ShowsNext, Says
<1>5. ASSUME NEW x \in Everything, x \notin DOMAIN e.values
      PROVE  /\ x \in behind => x \in behind'
             /\ \A v : Shows(x, v) => ShowsNext(x, v)
  <2>1. x \in Knobs => shown'[x] = shown[x]
    BY <1>2, <1>5, ValuesTaken
  <2>2. x = "current" \/ x \in StagePedals \/ x \in Knobs
    BY DEF Everything
  <2> QED
    BY <1>2, <1>5, <2>1, <2>2 DEF ShowsNext, Shows
<1>6. seed.state = "read" => overtaken' = overtaken \cup DOMAIN e.values
  BY <1>2 DEF Overtake
<1>7. LastWord' /\ PageKnows' /\ SeedKnows'
  BY <1>1, <1>2, <1>3, <1>4, <1>5, <1>6, TakenKept DEF DashInv, Typed, e
<1>8. Typed'
  BY <1>1, <1>2, TakeTotal, TakenTyped DEF DashInv, Typed, PageTyped
<1> QED
  BY <1>7, <1>8 DEF DashInv

LEMMA ReceiveEnableStep ==
    ASSUME DashInv, ReceiveEnable
    PROVE  DashInv'
<1> DEFINE e == Head(stream)
<1>1. /\ conn = "live" /\ stream # <<>> /\ stream' = Tail(stream)
      /\ UNCHANGED <<conn, seed, net, daemon>>
      /\ e.kind = "enable" /\ DOMAIN e.stages \subseteq StagePedals
  BY ReceiveFacts DEF ReceiveEnable, DashInv, Typed, IsEvent, IsSnapshot
<1>2. /\ enabled' = Stages(e.stages) /\ behind' = behind \ DOMAIN e.stages
      /\ Overtake(DOMAIN e.stages) /\ UNCHANGED <<shown, current, pending>>
  BY DEF ReceiveEnable
<1> HIDE DEF e
<1>3. \A x : (Tells(e, x) <=> x \in DOMAIN e.stages) /\ (Carries(e, x) <=> x \in DOMAIN e.stages)
             /\ ~Holds(e, x)
  BY <1>1 DEF Tells, Carries, Subject, Holds
<1>4. \A x \in StagePedals : enabled'[x] = IF x \in DOMAIN e.stages THEN e.stages[x] ELSE enabled[x]
  BY <1>2, StagesTotal, ItemsDiffer
<1>5. ASSUME NEW x \in Everything, x \in DOMAIN e.stages
      PROVE  ShowsNext(x, Says(e, x))
  <2>1. x \in StagePedals /\ x # "current"
    BY <1>1, <1>5, ItemsDiffer
  <2> QED
    BY <1>4, <1>5, <2>1 DEF ShowsNext, Says
<1>6. ASSUME NEW x \in Everything, x \notin DOMAIN e.stages
      PROVE  \A v : Shows(x, v) => ShowsNext(x, v)
  BY <1>2, <1>4, <1>6 DEF ShowsNext, Shows
<1>7. seed.state = "read" => overtaken' = overtaken \cup DOMAIN e.stages
  BY <1>2 DEF Overtake
<1>8. LastWord' /\ PageKnows' /\ SeedKnows'
  BY <1>1, <1>2, <1>3, <1>5, <1>6, <1>7, TakenKept DEF DashInv, Typed, e
<1>9. Typed'
  BY <1>1, <1>2, StagesTotal, TakenTyped DEF DashInv, Typed, PageTyped
<1> QED
  BY <1>8, <1>9 DEF DashInv

\* A switch: everything it carries is taken, and queued edits are given up.
LEMMA ReceivePatchStep ==
    ASSUME DashInv, ReceivePatch
    PROVE  DashInv'
<1> DEFINE e == Head(stream)
<1>1. /\ conn = "live" /\ stream # <<>> /\ stream' = Tail(stream)
      /\ UNCHANGED <<conn, seed, net, daemon>>
      /\ e.kind = "patch" /\ DOMAIN e.values = PatchKnobs /\ DOMAIN e.stages = StagePedals
  BY ReceiveFacts DEF ReceivePatch, DashInv, Typed, IsEvent, IsSnapshot
<1>2. /\ Take(e.values, {}) /\ current' = e.name /\ pending' = Nothing
      /\ enabled' = [p \in Pedals |-> IF p \in SoftOnes THEN TRUE ELSE Stages(e.stages)[p]]
      /\ behind' = (behind \cup DOMAIN pending) \ Subject(e)
      /\ Overtake(Subject(e))
  BY DEF ReceivePatch, CancelPending
<1> HIDE DEF e
<1>3. Subject(e) = PatchItems
  BY <1>1 DEF Subject, PatchItems
<1>4. \A x : (Tells(e, x) <=> x \in PatchItems) /\ (Carries(e, x) <=> x \in PatchItems)
             /\ ~Holds(e, x)
  BY <1>1, <1>3 DEF Tells, Carries, Holds
<1>5. \A x \in StagePedals : enabled'[x] = e.stages[x]
  BY <1>1, <1>2, ItemsDiffer DEF Stages
<1>6. \A x \in Knobs : shown'[x] = IF x \in PatchKnobs THEN FromEngine(x, e.values[x])
                                   ELSE shown[x]
  BY <1>1, <1>2 DEF Take
<1>7. ASSUME NEW x \in PatchItems
      PROVE  ShowsNext(x, Says(e, x))
  <2>1. x \in PatchKnobs => x # "current" /\ x \notin StagePedals /\ x \in Knobs
    BY ItemsDiffer, KnobSets
  <2> QED
    BY <1>2, <1>5, <1>6, <2>1 DEF ShowsNext, Says, PatchItems
<1>8. ASSUME NEW x \in Everything, x \notin PatchItems
      PROVE  /\ x \in behind \cup DOMAIN pending => x \in behind'
             /\ \A v : Shows(x, v) => ShowsNext(x, v)
  <2>1. x \in Knobs /\ x \notin PatchKnobs /\ x # "current" /\ x \notin StagePedals
    BY <1>8 DEF Everything, PatchItems
  <2> QED
    BY <1>2, <1>3, <1>6, <1>8, <2>1 DEF ShowsNext, Shows
<1>9. seed.state = "read" => overtaken' = overtaken \cup PatchItems
  BY <1>2, <1>3 DEF Overtake
<1>10. LastWord' /\ PageKnows' /\ SeedKnows'
  BY <1>1, <1>4, <1>7, <1>8, <1>9, TakenKept DEF DashInv, Typed, e
<1>11. Typed'
  <2>1. Total(enabled', Pedals) /\ DOMAIN pending' \subseteq Knobs
    BY <1>2 DEF Total, Nothing
  <2> QED
    BY <1>1, <1>2, <2>1, TakeTotal, TakenTyped DEF DashInv
<1> QED
  BY <1>10, <1>11 DEF DashInv

LEMMA ReceiveBareStep ==
    ASSUME DashInv, ReceiveBare
    PROVE  DashInv'
<1> DEFINE e == Head(stream)
<1>1. /\ conn = "live" /\ stream # <<>> /\ stream' = Tail(stream)
      /\ UNCHANGED <<conn, seed, net, daemon>> /\ e.kind = "bare"
  BY ReceiveFacts DEF ReceiveBare, DashInv, Typed
<1>2. /\ behind' = behind \cup e.about /\ Overtake(e.about)
      /\ UNCHANGED <<shown, enabled, current, pending>>
  BY DEF ReceiveBare, page
<1> HIDE DEF e
<1>3. \A x : (Tells(e, x) <=> x \in e.about) /\ ~Carries(e, x)
  BY <1>1 DEF Tells, Carries, Subject
<1>4. \A x : \A v : Shows(x, v) => ShowsNext(x, v)
  BY <1>2 DEF ShowsNext, Shows
<1>5. seed.state = "read" => overtaken' = overtaken \cup e.about
  BY <1>2 DEF Overtake
<1>6. LastWord' /\ PageKnows' /\ SeedKnows'
  BY <1>1, <1>2, <1>3, <1>4, <1>5, TakenKept DEF DashInv, Typed, e
<1>7. Typed'
  BY <1>1, <1>2, TakenTyped DEF DashInv, Typed, PageTyped
<1> QED
  BY <1>6, <1>7 DEF DashInv

\* A snapshot: what was dropped behind it the page stays behind with.
LEMMA ReceiveSnapshotStep ==
    ASSUME DashInv, ReceiveSnapshot
    PROVE  DashInv'
<1> DEFINE e == Head(stream)
<1>1. /\ conn = "live" /\ stream # <<>> /\ stream' = Tail(stream)
      /\ UNCHANGED <<conn, seed, net, daemon>>
      /\ e.kind = "snapshot" /\ DOMAIN e.values = StatusKnobs
  BY ReceiveFacts DEF ReceiveSnapshot, DashInv, Typed, IsEvent, IsSnapshot
<1>2. /\ Take(e.values, guard) /\ current' = e.name
      /\ behind' = (behind \ (DOMAIN e.values \cup {"current"}))
                      \cup Ignored(e.values, guard) \cup e.about
      /\ Overtake(DOMAIN e.values) /\ UNCHANGED <<enabled, pending>>
  BY DEF ReceiveSnapshot
<1> HIDE DEF e
<1>3. \A x : ~Tells(e, x) /\ (Carries(e, x) <=> x \in SnapshotItems)
             /\ (Holds(e, x) <=> x \in e.about)
  BY <1>1 DEF Tells, Carries, Holds
<1>4. ASSUME NEW x \in SnapshotItems
      PROVE  ShowsNext(x, Says(e, x)) \/ x \in behind'
  <2>1. x # "current" => x \in DOMAIN e.values /\ x \in Knobs /\ x \notin StagePedals
    BY <1>1, ItemsDiffer, KnobSets DEF SnapshotItems
  <2> QED
    BY <1>2, <2>1, ValuesTaken DEF ShowsNext, Says
<1>5. ASSUME NEW x \in Everything, x \notin SnapshotItems
      PROVE  /\ x \in behind => x \in behind'
             /\ \A v : Shows(x, v) => ShowsNext(x, v)
  <2>1. x # "current" /\ x \notin DOMAIN e.values
    BY <1>1, <1>5 DEF SnapshotItems
  <2>2. ASSUME x \in Knobs PROVE shown'[x] = shown[x]
    BY <1>2, <2>1, <2>2, ValuesTaken
  <2>3. x \in StagePedals \/ x \in Knobs
    BY <2>1 DEF Everything
  <2> QED
    BY <1>2, <2>1, <2>2, <2>3 DEF ShowsNext, Shows
<1>6. seed.state = "read" => overtaken \subseteq overtaken'
  BY <1>2 DEF Overtake
<1>7. \A x \in Everything : Holds(e, x) => x \in behind'
  BY <1>2, <1>3
<1>8. LastWord' /\ PageKnows' /\ SeedKnows'
  BY <1>1, <1>2, <1>3, <1>4, <1>5, <1>6, <1>7, TakenKept DEF DashInv, Typed, e
<1>9. Typed'
  BY <1>1, <1>2, TakeTotal, TakenTyped DEF DashInv, Typed, PageTyped
<1> QED
  BY <1>8, <1>9 DEF DashInv

LEMMA HandleEventStep ==
    ASSUME DashInv, HandleEvent PROVE DashInv'
  BY ReceiveValueStep, ReceiveEnableStep, ReceivePatchStep, ReceiveBareStep, ReceiveSnapshotStep
     DEF HandleEvent

----------------------------------------------------------------------------
(***************************************************************************)
(* Steps of the page's own: the daemon and what it has said stay.          *)
(***************************************************************************)

LEMMA PageStep ==
    ASSUME DashInv, UNCHANGED <<link, daemon, overtaken>>, behind \subseteq behind',
           PageTyped', PageKnows'
    PROVE  DashInv'
<1>1. UNCHANGED <<conn, stream, seed>>
  BY DEF link
<1>2. LastWord' /\ SeedKnows'
  BY <1>1, QuietKept DEF DashInv
<1>3. DaemonTyped' /\ StreamTyped' /\ SeedTyped' /\ OffLine'
  BY <1>1 DEF DashInv, Typed, DaemonTyped, StreamTyped, SeedTyped, OffLine, daemon
<1> QED
  BY <1>2, <1>3 DEF DashInv, Typed

\* The usual way for the page to know after a step what it knew before.
LEMMA StillKnows ==
    ASSUME PageKnows, UNCHANGED <<stream, daemon>>, behind \subseteq behind',
           \A x \in Everything :
              /\ x \in DOMAIN pending => x \in DOMAIN pending' \/ Asked(x)' \/ x \in behind'
              /\ Asked(x) => Asked(x)' \/ x \in behind'
              /\ \/ x \in DOMAIN pending' \/ Asked(x)' \/ x \in behind'
                 \/ \A v : Shows(x, v) => ShowsNext(x, v)
    PROVE  PageKnows'
<1> SUFFICES ASSUME NEW x \in Everything, x \notin behind', x \notin DOMAIN pending',
                    ~Asked(x)', ~Later(0, x)'
             PROVE  ShowsNext(x, Truth(x))
  BY SameTruth, ShowsAfter DEF PageKnows
<1>1. ~Later(0, x) /\ x \notin behind /\ x \notin DOMAIN pending /\ ~Asked(x)
  BY DEF Later
<1>2. Shows(x, Truth(x))
  BY <1>1 DEF PageKnows
<1> QED
  BY <1>2

LEMMA SetParamStep ==
    ASSUME DashInv, NEW i \in Knobs, NEW v, SetParam(i, v)
    PROVE  DashInv'
<1>1. /\ UNCHANGED <<link, daemon, told, net, enabled, current>>
      /\ shown' = [shown EXCEPT ![i] = v] /\ DOMAIN pending' = DOMAIN pending \cup {i}
  BY DEF SetParam
<1>2. PageTyped'
  BY <1>1 DEF DashInv, Typed, PageTyped, Total
<1>3. \A x \in Knobs \ {i} : shown'[x] = shown[x]
  BY <1>1
<1>4. \A x \in Everything : x # i => \A w : Shows(x, w) => ShowsNext(x, w)
  BY <1>1, <1>3 DEF Shows, ShowsNext, Everything
<1>5. \A x : Asked(x)' <=> Asked(x)
  BY <1>1 DEF Asked
<1>6. PageKnows'
  BY <1>1, <1>4, <1>5, StillKnows DEF DashInv, link, told
<1> QED
  BY <1>1, <1>2, <1>6, PageStep DEF told

\* What was queued is asked for, or was a bypassed pedal's and is given up.
LEMMA FlushStep ==
    ASSUME DashInv, Flush
    PROVE  DashInv'
<1>1. /\ UNCHANGED <<link, daemon, overtaken, shown, enabled, current>>
      /\ net' = net \cup {SetRequest(i, ToEngine(i, pending[i].value)) :
                             i \in DOMAIN pending \ Parked}
      /\ behind' = behind \cup (DOMAIN pending \cap Parked) /\ pending' = Nothing
  BY DEF Flush
<1>2. ASSUME NEW i \in DOMAIN pending \ Parked
      PROVE  Asked(i)' /\ IsRequest(SetRequest(i, ToEngine(i, pending[i].value)))
  <2>1. SetRequest(i, ToEngine(i, pending[i].value)) \in net'
    BY <1>1
  <2>2. i \in Knobs
    BY DEF DashInv, Typed, PageTyped
  <2>3. \A v : Asks(SetRequest(i, v), i) /\ IsRequest(SetRequest(i, v))
    BY <2>2 DEF Asks, IsRequest, SetRequest
  <2> QED
    BY <2>1, <2>3 DEF Asked
<1>3. PageTyped'
  BY <1>1, <1>2 DEF DashInv, Typed, PageTyped, Nothing
<1>4. \A x : Asked(x) => Asked(x)'
  BY <1>1 DEF Asked
<1>5. \A x : \A v : Shows(x, v) => ShowsNext(x, v)
  BY <1>1, SamePage
<1>6. PageKnows'
  BY <1>1, <1>2, <1>4, <1>5, StillKnows DEF DashInv, link
<1> QED
  BY <1>1, <1>3, <1>6, PageStep

LEMMA SelectPatchStep ==
    ASSUME DashInv, NEW q \in Patches, SelectPatch(q)
    PROVE  DashInv'
<1>1. /\ UNCHANGED <<link, daemon, overtaken, shown, enabled>>
      /\ net' = net \cup {SelectRequest(q)} /\ pending' = Nothing
      /\ behind' = behind \cup DOMAIN pending
  BY DEF SelectPatch, CancelPending
<1>2. IsRequest(SelectRequest(q)) /\ Asks(SelectRequest(q), "current")
  BY DEF IsRequest, Asks, SelectRequest
<1>3. PageTyped'
  BY <1>1, <1>2 DEF DashInv, Typed, PageTyped, Nothing
<1>4. (\A x : Asked(x) => Asked(x)') /\ Asked("current")'
  BY <1>1, <1>2 DEF Asked
<1>5. \A x : x # "current" => \A v : Shows(x, v) => ShowsNext(x, v)
  BY <1>1 DEF Shows, ShowsNext
<1>6. PageKnows'
  BY <1>1, <1>4, <1>5, StillKnows DEF DashInv, link
<1> QED
  BY <1>1, <1>3, <1>6, PageStep

\* A pedal with an enable is asked for; of the others no item changes.
LEMMA TogglePedalStep ==
    ASSUME DashInv, NEW p \in Pedals, TogglePedal(p)
    PROVE  DashInv'
<1> DEFINE on == ~enabled[p]
           sets == {IF on THEN SetRequest(i, ToEngine(i, shown[i])) ELSE SetRequest(i, 0) :
                       i \in SOFT_BYPASS_PARAMS[p] \cap Knobs}
<1>1. /\ UNCHANGED <<link, daemon, told, shown, current, pending>>
      /\ enabled' = [enabled EXCEPT ![p] = on]
      /\ net' = net \cup (IF p \in StagePedals THEN {EnableRequest(p, on)} ELSE sets)
  BY DEF TogglePedal
<1>2. \A m \in sets : IsRequest(m)
  BY DEF IsRequest, SetRequest
<1> HIDE DEF on, sets
<1>3. p \in StagePedals => IsRequest(EnableRequest(p, on)) /\ Asks(EnableRequest(p, on), p)
  BY DEF IsRequest, Asks, EnableRequest
<1>4. PageTyped'
  BY <1>1, <1>2, <1>3 DEF DashInv, Typed, PageTyped, Total
<1>5. (\A x : Asked(x) => Asked(x)') /\ (p \in StagePedals => Asked(p)')
  BY <1>1, <1>3 DEF Asked
<1>6. \A x \in Pedals \ {p} : enabled'[x] = enabled[x]
  BY <1>1
<1>7. \A x : x \notin StagePedals \/ x # p => \A v : Shows(x, v) => ShowsNext(x, v)
  BY <1>1, <1>6, ItemsDiffer DEF Shows, ShowsNext
<1>8. PageKnows'
  BY <1>1, <1>5, <1>7, StillKnows DEF DashInv, link, told
<1> QED
  BY <1>1, <1>4, <1>8, PageStep DEF told

LEMMA GuardStep ==
    ASSUME DashInv, NEW i, GuardExpires(i)
    PROVE  DashInv'
<1>1. UNCHANGED <<shown, enabled, current, pending, link, net, daemon, told>>
  BY DEF GuardExpires
<1>2. PageTyped'
  BY <1>1 DEF DashInv, Typed, PageTyped
<1>3. (\A x : Asked(x)' <=> Asked(x)) /\ \A x : \A v : Shows(x, v) => ShowsNext(x, v)
  BY <1>1, SamePage DEF Asked
<1>4. PageKnows'
  BY <1>1, <1>3, StillKnows DEF DashInv, link, told
<1> QED
  BY <1>1, <1>2, <1>4, PageStep DEF told

\* Of a request that is not served the page is told nothing.
LEMMA UnservedStep ==
    ASSUME DashInv, NEW m \in net, Unserved(m)
    PROVE  DashInv'
<1> DEFINE about == CASE m.kind = "set" -> {m.knob}
                      [] m.kind = "enable" -> {m.pedal}
                      [] m.kind = "select" -> {"current"}
<1>1. /\ UNCHANGED <<page, conn, seed, stream, daemon, overtaken>>
      /\ net' = net \ {m} /\ behind' = behind \cup about
  BY DEF Unserved, DaemonStep
<1>2. \A x : Asks(m, x) => x \in about
  BY DEF Asks
<1> HIDE DEF about
<1>3. PageTyped'
  BY <1>1 DEF DashInv, Typed, PageTyped, page
<1>4. \A x : Asked(x) => Asked(x)' \/ x \in behind'
  BY <1>1, <1>2 DEF Asked
<1>5. \A x : \A v : Shows(x, v) => ShowsNext(x, v)
  BY <1>1, SamePage DEF page
<1>6. PageKnows'
  BY <1>1, <1>4, <1>5, StillKnows DEF DashInv, page
<1> QED
  BY <1>1, <1>3, <1>6, PageStep DEF link

LEMMA UserStep ==
    ASSUME DashInv, User PROVE DashInv'
  BY SetParamStep, SelectPatchStep, TogglePedalStep DEF User

----------------------------------------------------------------------------
(***************************************************************************)
(* The stream is made, seeded and lost, and the chain is asked for.        *)
(***************************************************************************)

LEMMA ConnectStep ==
    ASSUME DashInv, Connect
    PROVE  DashInv'
<1>1. /\ conn = "down" /\ conn' = "subscribed"
      /\ UNCHANGED <<page, stream, seed, net, daemon, told>>
  BY DEF Connect
<1>2. LastWord' /\ SeedKnows'
  BY <1>1, QuietKept DEF DashInv, told
<1>3. Typed'
  BY <1>1 DEF DashInv, Typed, PageTyped, DaemonTyped, StreamTyped, SeedTyped, OffLine,
              page, daemon, told
<1>4. \A x : Asked(x)' <=> Asked(x)
  BY <1>1 DEF Asked
<1>5. \A x : \A v : Shows(x, v) => ShowsNext(x, v)
  BY <1>1, SamePage DEF page
<1>6. PageKnows'
  BY <1>1, <1>4, <1>5, StillKnows DEF DashInv, page, told
<1> QED
  BY <1>2, <1>3, <1>6 DEF DashInv

\* The snapshot goes before what was said since the page subscribed.
LEMMA SendSnapshotStep ==
    ASSUME DashInv, SendSnapshot
    PROVE  DashInv'
<1> DEFINE e == Snapshot
<1>1. /\ conn = "subscribed" /\ conn' = "live" /\ stream' = <<e>> \o stream
      /\ UNCHANGED <<page, net, daemon, behind>> /\ seed'.state = "asked"
  BY DEF SendSnapshot, NoSeed, told
<1>2. /\ e.kind = "snapshot" /\ IsSnapshot(e)
      /\ e.name = reg.current /\ e.values = [i \in StatusKnobs |-> Live(i)]
  BY DEF Snapshot, IsSnapshot
<1> HIDE DEF e
<1>3. Everything \subseteq behind /\ \A k \in DOMAIN stream : IsEvent(stream[k])
  BY <1>1 DEF DashInv, Typed, OffLine
<1>4. IsSeq(stream) /\ Len(stream) \in Nat /\ DOMAIN stream = 1 .. Len(stream)
  BY SeqLength DEF DashInv, Typed, StreamTyped
<1>5. /\ IsSeq(stream') /\ DOMAIN stream' = 1 .. Len(stream) + 1 /\ stream'[1] = e
      /\ \A k \in DOMAIN stream : stream'[k + 1] = stream[k]
  BY <1>1, <1>4, FirstAndSeq
<1>6. ASSUME NEW k \in DOMAIN stream', k # 1
      PROVE  k - 1 \in DOMAIN stream /\ stream'[k] = stream[k - 1]
  <2>1. k - 1 \in DOMAIN stream /\ (k - 1) + 1 = k
    BY <1>4, <1>5, <1>6
  <2> QED
    BY <1>5, <2>1
<1>7. StreamTyped'
  BY <1>2, <1>3, <1>5, <1>6 DEF StreamTyped
<1>8. LastWord'
  <2> SUFFICES ASSUME NEW k \in DOMAIN stream', NEW x \in Everything, Carries(stream'[k], x)
               PROVE  Says(stream'[k], x) = Truth(x) \/ Later(k, x)'
    BY <1>1, SameTruth DEF LastWord
  <2>1. CASE k = 1
    <3>1. x \in SnapshotItems
      BY <1>2, <1>5, <2>1 DEF Carries
    <3>2. x # "current" => x \in StatusKnobs /\ x \notin StagePedals
      BY <3>1, ItemsDiffer, KnobSets DEF SnapshotItems
    <3> QED
      BY <1>2, <1>5, <2>1, <3>2 DEF Says, Truth, Live
  <2>2. CASE k # 1
    <3>1. k - 1 \in DOMAIN stream /\ stream'[k] = stream[k - 1] /\ IsEvent(stream[k - 1])
      BY <1>3, <1>6, <2>2
    <3>2. Says(stream[k - 1], x) = Truth(x) \/ Later(k - 1, x)
      BY <3>1, EventsAndSnapshots DEF DashInv, LastWord
    <3>3. ASSUME Later(k - 1, x) PROVE Later(k, x)'
      <4>1. PICK j \in DOMAIN stream : j > k - 1 /\ Tells(stream[j], x)
        BY <3>3 DEF Later
      <4>2. j + 1 \in DOMAIN stream' /\ j + 1 > k
        BY <1>4, <1>5, <4>1
      <4>3. Tells(stream'[j + 1], x)
        BY <1>5, <4>1
      <4> QED
        BY <4>2, <4>3 DEF Later
    <3> QED
      BY <3>1, <3>2, <3>3
  <2> QED
    BY <2>1, <2>2
<1>9. PageKnows' /\ SeedKnows'
  BY <1>1, <1>3 DEF PageKnows, SeedKnows
<1>10. Typed'
  BY <1>1, <1>7 DEF DashInv, Typed, PageTyped, DaemonTyped, SeedTyped, OffLine, page, daemon
<1> QED
  BY <1>8, <1>9, <1>10 DEF DashInv

LEMMA StreamLostStep ==
    ASSUME DashInv, StreamLost
    PROVE  DashInv'
<1>1. /\ conn' = "down" /\ stream' = <<>> /\ seed' = NoSeed /\ behind' = Everything
      /\ UNCHANGED <<page, net, daemon>>
  BY DEF StreamLost
<1>2. DOMAIN stream' = {} /\ IsSeq(stream')
  BY <1>1 DEF IsSeq
<1>3. LastWord' /\ PageKnows' /\ SeedKnows'
  BY <1>1, <1>2 DEF LastWord, PageKnows, SeedKnows, NoSeed
<1>4. Typed'
  BY <1>1, <1>2 DEF DashInv, Typed, PageTyped, DaemonTyped, StreamTyped, SeedTyped, OffLine,
                    NoSeed, page, daemon
<1> QED
  BY <1>3, <1>4 DEF DashInv

\* A step of the chain's answer alone leaves what the page knows.
LEMMA SeedStepKept ==
    ASSUME DashInv, UNCHANGED <<page, conn, stream, net, daemon, told>>,
           SeedTyped', conn # "live" => seed'.state = "idle", SeedKnows'
    PROVE  DashInv'
<1>1. \A x : Truth(x)' = Truth(x)
  BY SameTruth
<1>2. LastWord'
  BY <1>1 DEF DashInv, LastWord, Later
<1>3. Typed'
  BY DEF DashInv, Typed, PageTyped, DaemonTyped, StreamTyped, OffLine, page, daemon, told
<1>4. \A x : Asked(x)' <=> Asked(x)
  BY DEF Asked
<1>5. \A x : \A v : Shows(x, v) => ShowsNext(x, v)
  BY SamePage DEF page
<1>6. PageKnows'
  BY <1>4, <1>5, StillKnows DEF DashInv, page, told
<1> QED
  BY <1>2, <1>3, <1>6 DEF DashInv

LEMMA SeedReadStep ==
    ASSUME DashInv, SeedRead
    PROVE  DashInv'
<1>1. /\ seed.state = "asked" /\ UNCHANGED <<page, conn, stream, net, daemon, told>>
      /\ seed'.state = "read" /\ seed'.values = [i \in ChainKnobs |-> Live(i)]
      /\ seed'.stages = stageOn[reg.current]
  BY DEF SeedRead
<1>2. DOMAIN stageOn[reg.current] = StagePedals
  <2>1. Total(stageOn[reg.current], StagePedals)
    BY TableShape DEF DashInv, Typed, DaemonTyped
  <2> QED
    BY <2>1 DEF Total
<1>3. SeedTyped' /\ conn = "live"
  BY <1>1, <1>2 DEF DashInv, Typed, SeedTyped, OffLine
<1>4. ASSUME NEW x \in SeedItems PROVE Says(seed', x) = Truth(x)
  <2>1. x # "current" /\ (x \notin StagePedals => x \in ChainKnobs)
    BY ItemsDiffer, KnobSets DEF SeedItems
  <2> QED
    BY <1>1, <2>1 DEF Says, Truth, Live
<1>5. SeedKnows'
  <2> SUFFICES ASSUME NEW x \in SeedItems PROVE Says(seed', x) = Truth(x)'
    BY DEF SeedKnows, Says
  <2> QED
    BY <1>1, <1>4, SameTruth
<1> QED
  BY <1>1, <1>3, <1>5, SeedStepKept

LEMMA SeedFailsStep ==
    ASSUME DashInv, SeedFails
    PROVE  DashInv'
<1>1. seed' = NoSeed /\ UNCHANGED <<page, conn, stream, net, daemon, told>>
  BY DEF SeedFails
<1>2. SeedTyped' /\ SeedKnows' /\ seed'.state = "idle"
  BY <1>1 DEF SeedTyped, SeedKnows, NoSeed
<1> QED
  BY <1>1, <1>2, SeedStepKept

\* The answer is taken; where something newer was told the page stays behind.
LEMMA SeedApplyStep ==
    ASSUME DashInv, SeedApply
    PROVE  DashInv'
<1>1. /\ seed.state = "read" /\ Take(seed.values, guard) /\ enabled' = Stages(seed.stages)
      /\ behind' = (behind \ SeedItems) \cup Ignored(seed.values, guard)
                      \cup (overtaken \cap SeedItems)
      /\ seed' = NoSeed
      /\ UNCHANGED <<current, pending, conn, stream, net, daemon>>
  BY DEF SeedApply, SeedItems
<1>2. DOMAIN seed.values = ChainKnobs /\ DOMAIN seed.stages = StagePedals /\ conn = "live"
  BY <1>1 DEF DashInv, Typed, SeedTyped, OffLine
<1>3. \A x \in StagePedals : enabled'[x] = seed.stages[x]
  BY <1>1, <1>2, StagesTotal, ItemsDiffer
<1>4. ASSUME NEW x \in SeedItems
      PROVE  ShowsNext(x, Says(seed, x)) \/ x \in behind'
  <2>1. x # "current" /\ (x \notin StagePedals => x \in DOMAIN seed.values /\ x \in Knobs)
    BY <1>2, ItemsDiffer, KnobSets DEF SeedItems
  <2> QED
    BY <1>1, <1>3, <2>1, ValuesTaken DEF ShowsNext, Says
<1>5. ASSUME NEW x \in Everything, x \notin SeedItems
      PROVE  /\ x \in behind => x \in behind'
             /\ \A v : Shows(x, v) => ShowsNext(x, v)
  <2>1. x \notin StagePedals /\ x \notin DOMAIN seed.values
    BY <1>2, <1>5 DEF SeedItems
  <2>2. ASSUME x \in Knobs PROVE shown'[x] = shown[x]
    BY <1>1, <2>1, <2>2, ValuesTaken
  <2>3. x = "current" \/ x \in Knobs
    BY <2>1 DEF Everything
  <2> QED
    BY <1>1, <1>5, <2>1, <2>2, <2>3 DEF ShowsNext, Shows
<1>6. (\A x : Truth(x)' = Truth(x)) /\ \A k, x : Later(k, x)' <=> Later(k, x)
  BY <1>1, SameTruth DEF Later
<1>7. LastWord'
  BY <1>1, <1>6 DEF DashInv, LastWord
<1>8. PageKnows'
  <2> SUFFICES ASSUME NEW x \in Everything, x \notin behind', x \notin DOMAIN pending,
                      ~Asked(x), ~Later(0, x)
               PROVE  ShowsNext(x, Truth(x))
    BY <1>1, <1>6, ShowsAfter DEF PageKnows, Asked
  <2>1. CASE x \in SeedItems
    <3>1. x \notin overtaken /\ ShowsNext(x, Says(seed, x))
      BY <1>1, <1>4, <2>1
    <3>2. Says(seed, x) = Truth(x)
      BY <1>1, <2>1, <3>1 DEF DashInv, SeedKnows
    <3> QED
      BY <3>1, <3>2
  <2>2. CASE x \notin SeedItems
    BY <1>5, <2>2 DEF DashInv, PageKnows
  <2> QED
    BY <2>1, <2>2
<1>9. SeedKnows' /\ SeedTyped'
  BY <1>1 DEF SeedKnows, SeedTyped, NoSeed
<1>10. PageTyped'
  BY <1>1, TakeTotal, StagesTotal DEF DashInv, Typed, PageTyped
<1>11. DaemonTyped' /\ StreamTyped' /\ OffLine'
  BY <1>1, <1>2 DEF DashInv, Typed, DaemonTyped, StreamTyped, OffLine, daemon
<1> QED
  BY <1>7, <1>8, <1>9, <1>10, <1>11 DEF DashInv, Typed

----------------------------------------------------------------------------
(***************************************************************************)
(* The invariant, and what it says of a page at rest.                      *)
(***************************************************************************)

LEMMA DashInvInit ==
    ASSUME DashInit PROVE DashInv
<1> DEFINE top == CHOOSE v \in Levels : \A w \in Levels : w <= v
<1>1. PICK first \in Patches :
          /\ reg = [current |-> first, active |-> first, loading |-> FALSE]
          /\ stored = [q \in Patches |-> [i \in Knobs |->
                IF q = first \/ i \in GlobalKnobs THEN top ELSE 0]]
          /\ stageOn = [q \in Patches |-> [p \in StagePedals |-> q = first]]
  BY DEF DashInit
<1> HIDE DEF top
<1>2. /\ shown = [i \in Knobs |-> 0] /\ enabled = [p \in Pedals |-> TRUE]
      /\ pending = Nothing /\ net = {} /\ conn = "down" /\ stream = <<>> /\ seed = NoSeed
      /\ behind = Everything
  BY DEF DashInit
<1>3. Table(stored, Knobs) /\ Table(stageOn, StagePedals)
  BY <1>1 DEF Table
<1>4. ASSUME NEW q \in Patches, NEW r \in Patches, NEW i \in GlobalKnobs
      PROVE  stored[q][i] = stored[r][i]
  BY <1>1, KnobSets
<1>5. DaemonTyped
  BY <1>1, <1>3, <1>4 DEF DaemonTyped, IsReg
<1>6. PageTyped
  BY <1>2 DEF PageTyped, Total, Nothing
<1>7. StreamTyped /\ SeedTyped /\ OffLine
  BY <1>2 DEF StreamTyped, SeedTyped, OffLine, IsSeq, NoSeed
<1>8. LastWord /\ PageKnows /\ SeedKnows
  BY <1>2 DEF LastWord, PageKnows, SeedKnows, NoSeed
<1> QED
  BY <1>5, <1>6, <1>7, <1>8 DEF DashInv, Typed

LEMMA DashInvNext ==
    ASSUME DashInv, [DashNext]_dashVars PROVE DashInv'
<1>1. CASE DashNext
  BY <1>1, UserStep, FlushStep, GuardStep, HandleEventStep, ConnectStep, SendSnapshotStep,
     StreamLostStep, SeedReadStep, SeedApplyStep, SeedFailsStep, ServeStep, UnservedStep,
     LoadStep, OtherClientStep DEF DashNext, GuardExpiresSome, SeedStep, ServeSome
<1>2. CASE UNCHANGED dashVars
  <2>1. UNCHANGED <<page, conn, stream, seed, net, daemon, told>>
    BY <1>2 DEF dashVars, link
  <2>2. SeedTyped' /\ (conn # "live" => seed'.state = "idle")
    BY <2>1 DEF DashInv, Typed, SeedTyped, OffLine
  <2>3. SeedKnows'
    BY <2>1, QuietKept DEF DashInv, told
  <2> QED
    BY <2>1, <2>2, <2>3, SeedStepKept
<1> QED
  BY <1>1, <1>2

\* At rest nothing is queued, asked for or on its way: what is left of
\* PageKnows is that the page is behind with an item, or shows it as it is.
LEMMA AtRest ==
    ASSUME DashInv PROVE DashboardAgrees
<1> SUFFICES ASSUME Settled
             PROVE  /\ \A i \in Knobs \ behind : shown[i] = FromEngine(i, Live(i))
                    /\ \A p \in StagePedals \ behind : enabled[p] = stageOn[reg.current][p]
                    /\ "current" \in behind \/ current = reg.current
  BY DEF DashboardAgrees
<1>1. DOMAIN pending = {} /\ net = {} /\ DOMAIN stream = {}
  BY DEF Settled, Empty, Nothing
<1>2. \A x \in Everything : x \in behind \/ Shows(x, Truth(x))
  BY <1>1 DEF DashInv, PageKnows, Asked, Later
<1>3. ASSUME NEW i \in Knobs \ behind PROVE shown[i] = FromEngine(i, Live(i))
  <2>1. i # "current" /\ i \notin StagePedals
    BY ItemsDiffer
  <2> QED
    BY <1>2, <2>1 DEF Shows, Truth, Everything, Live
<1>4. ASSUME NEW p \in StagePedals \ behind PROVE enabled[p] = stageOn[reg.current][p]
  <2>1. p # "current"
    BY ItemsDiffer
  <2> QED
    BY <1>2, <2>1 DEF Shows, Truth, Everything
<1>5. "current" \in behind \/ current = reg.current
  BY <1>2 DEF Shows, Truth, Everything
<1> QED
  BY <1>3, <1>4, <1>5

\* At rest the page shows what the daemon has, except for what it was not
\* told, or was told and ignored: useSSE's subscription, its snapshot and the
\* chain's answer leave nothing else out, however they interleave.
THEOREM PageAgrees == DashSpec => []DashboardAgrees
<1>1. DashInit => DashInv
  BY DashInvInit
<1>2. DashInv /\ [DashNext]_dashVars => DashInv'
  BY DashInvNext
<1>3. DashInv => DashboardAgrees
  BY AtRest
<1> QED
  BY <1>1, <1>2, <1>3, PTL DEF DashSpec

----------------------------------------------------------------------------
LEMMA NoOldEditNext ==
    ASSUME PendingIsCurrent, [DashNext]_dashVars PROVE PendingIsCurrent'
<1>1. ASSUME NEW i \in Knobs, NEW v, SetParam(i, v) PROVE PendingIsCurrent'
  <2>1. /\ pending' = [j \in DOMAIN pending \cup {i} |->
                          IF j = i THEN [value |-> v, of |-> current] ELSE pending[j]]
        /\ UNCHANGED <<current, reseeded>>
    BY <1>1 DEF SetParam, told
  <2>2. DOMAIN pending' = DOMAIN pending \cup {i} /\ pending'[i].of = current
    BY <2>1
  <2>3. \A j \in DOMAIN pending \ {i} : pending'[j] = pending[j]
    BY <2>1
  <2> QED
    BY <2>1, <2>2, <2>3 DEF PendingIsCurrent
<1>2. ASSUME pending' = Nothing PROVE PendingIsCurrent'
  BY <1>2 DEF PendingIsCurrent, Nothing
<1>3. ASSUME UNCHANGED <<pending, current, reseeded>> PROVE PendingIsCurrent'
  BY <1>3 DEF PendingIsCurrent
<1>4. ASSUME NEW q, SelectPatch(q) PROVE PendingIsCurrent'
  BY <1>2, <1>4 DEF SelectPatch, CancelPending
<1>5. ASSUME User PROVE PendingIsCurrent'
  <2>1. ASSUME NEW p, TogglePedal(p) PROVE PendingIsCurrent'
    BY <1>3, <2>1 DEF TogglePedal, told
  <2> QED
    BY <1>1, <1>4, <1>5, <2>1 DEF User
<1>6. ASSUME HandleEvent PROVE PendingIsCurrent'
  <2>1. CASE ReceivePatch
    BY <1>2, <2>1 DEF ReceivePatch, CancelPending
  <2>2. CASE ReceiveValue \/ ReceiveEnable \/ ReceiveBare
    BY <1>3, <2>2 DEF ReceiveValue, ReceiveEnable, ReceiveBare, page
  <2>3. CASE ReceiveSnapshot
    <3>1. /\ pending' = pending /\ current' = Head(stream).name
          /\ reseeded' = (reseeded \/ (current # Head(stream).name /\ ~Empty))
      BY <2>3 DEF ReceiveSnapshot
    <3>2. CASE current = Head(stream).name \/ reseeded
      BY <3>1, <3>2 DEF PendingIsCurrent
    <3>3. CASE Empty
      BY <1>2, <3>1, <3>3 DEF Empty
    <3>4. CASE current # Head(stream).name /\ ~Empty
      <4>1. reseeded'
        BY <3>1, <3>4
      <4> QED
        BY <4>1 DEF PendingIsCurrent
    <3> QED
      BY <3>2, <3>3, <3>4
  <2> QED
    BY <1>6, <2>1, <2>2, <2>3 DEF HandleEvent
<1>7. ASSUME Flush PROVE PendingIsCurrent'
  BY <1>2, <1>7 DEF Flush
<1>8. ASSUME \/ GuardExpiresSome \/ Connect \/ SendSnapshot \/ StreamLost \/ SeedStep \/ SeedFails
      PROVE  PendingIsCurrent'
  BY <1>3, <1>8 DEF GuardExpiresSome, GuardExpires, Connect, SendSnapshot, StreamLost, SeedStep,
                    SeedRead, SeedApply, SeedFails, page, told
<1>9. ASSUME ServeSome \/ (\E m \in net : Unserved(m)) \/ LoadEnds \/ OtherClient
      PROVE  PendingIsCurrent'
  BY <1>3, <1>9 DEF ServeSome, Serve, Unserved, LoadEnds, LoadActive, LoadFails, OtherClient,
                    DaemonStep, page
<1>10. ASSUME UNCHANGED dashVars PROVE PendingIsCurrent'
  BY <1>3, <1>10 DEF dashVars, page, told
<1> QED
  BY <1>5, <1>6, <1>7, <1>8, <1>9, <1>10 DEF DashNext

\* An edit waits for the debounce only as long as the page shows the patch it
\* was made for, whoever switches; only a snapshot after a reconnect can come
\* between.
THEOREM NoOldEdit == DashSpec => []PendingIsCurrent
<1>1. DashInit => PendingIsCurrent
  BY DEF DashInit, PendingIsCurrent, Nothing
<1>2. PendingIsCurrent /\ [DashNext]_dashVars => PendingIsCurrent'
  BY NoOldEditNext
<1> QED
  BY <1>1, <1>2, PTL DEF DashSpec
=============================================================================
