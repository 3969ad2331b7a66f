-------------------------- MODULE LaunchkeyMessages --------------------------
(***************************************************************************)
(* What the debugger page makes of the keyboard's messages                 *)
(* (web/lib/launchkeyDebug.ts), in each of the three forms it gets them:   *)
(* bytes from the browser, events of the daemon, items of a report.        *)
(* Channels are counted from 0 on the wire and from 1 on the page.         *)
(***************************************************************************)
EXTENDS Integers, Sequences, TLC

Message(port, family, channel, number, value) ==
    [port |-> port, family |-> family, channel |-> channel,
     number |-> number, value |-> value]

dawButtons ==
    [n \in 37..45 |-> <<"fader-button", n - 36>>]
    @@ 51 :> <<"encoder-up">> @@ 52 :> <<"encoder-down">>
    @@ 74 :> <<"capture">> @@ 75 :> <<"quantise">> @@ 76 :> <<"metronome">>
    @@ 77 :> <<"undo">> @@ 102 :> <<"track-right">> @@ 103 :> <<"track-left">>
    @@ 104 :> <<"pad-right">> @@ 105 :> <<"function">> @@ 106 :> <<"pad-up">>
    @@ 107 :> <<"pad-down">> @@ 108 :> <<"track-right">>
    @@ 109 :> <<"track-left">> @@ 115 :> <<"play">> @@ 116 :> <<"stop">>
    @@ 117 :> <<"record">> @@ 118 :> <<"loop">>

featureControls ==
    [n \in {29, 30, 31, 63, 73, 74, 88} |->
        CASE n = 29 -> <<"pad-layout">> [] n = 30 -> <<"encoder-layout">>
          [] n = 31 -> <<"fader-layout">> [] n = 63 -> <<"shift">>
          [] n = 73 -> <<"arp">> [] n = 74 -> <<"scale">> [] n = 88 -> <<"latch">>]

None == <<"unmapped">>
Lookup(table, n) == IF n \in DOMAIN table THEN table[n] ELSE None

Notes == {"note-on", "note-off"}

controlForMessage(e) ==
    LET n == e.number
        pad == e.port = "DAW" /\ e.kind \in Notes \cup {"poly-aftertouch"}
                  /\ e.channel = 1
        dawCC == e.port = "DAW" /\ e.kind = "cc"
        midiCC == e.port = "MIDI" /\ e.kind = "cc"
    IN  CASE pad /\ n \in 96..103 -> <<"pad-top", n - 95>>
          [] pad /\ n \in 112..119 -> <<"pad-bottom", n - 111>>
          [] dawCC /\ e.channel = 1 -> Lookup(dawButtons, n)
          [] dawCC /\ e.channel = 7 -> Lookup(featureControls, n)
          [] dawCC /\ e.channel = 16 /\ n \in 5..13 -> <<"fader", n - 4>>
          [] dawCC /\ e.channel = 16 /\ n \in 37..45 -> <<"fader-button", n - 36>>
          [] dawCC /\ e.channel = 16 /\ n \in 85..92 -> <<"encoder", n - 84>>
          [] e.port = "MIDI" /\ e.kind \in Notes -> <<"key", n>>
          [] midiCC /\ n = 1 -> <<"mod-wheel">>
          [] midiCC /\ n = 64 -> <<"sustain">>
          [] e.port = "MIDI" /\ e.kind = "pitch-bend" -> <<"pitch-wheel">>
          [] OTHER -> None

Named(e) == [e EXCEPT !.control = controlForMessage(e)]

FamilyKind(family) ==
    CASE family = 144 -> "note-on" [] family = 128 -> "note-off"
      [] family = 160 -> "poly-aftertouch" [] family = 176 -> "cc"
      [] family = 192 -> "program-change" [] family = 208 -> "aftertouch"
      [] family = 224 -> "pitch-bend" [] OTHER -> "other"

\* A decodeMessage that believes the status byte.
decodeMessage_StatusOnly(m) ==
    Named([port |-> m.port, kind |-> FamilyKind(m.family),
           channel |-> m.channel + 1, number |-> m.number, value |-> m.value,
           control |-> None])

\* Bytes from the browser: a note-on without velocity is a note-off.
decodeMessage(m) ==
    LET kind == IF m.family = 144 /\ m.value = 0 THEN "note-off"
                ELSE FamilyKind(m.family)
    IN  Named([port |-> m.port, kind |-> kind, channel |-> m.channel + 1,
               number |-> m.number, control |-> None,
               value |-> CASE kind = "note-off" -> 0
                           [] kind = "pitch-bend" -> m.number + 128 * m.value - 8192
                           [] OTHER -> m.value])

\* The daemon's event, which names its port by the part it plays: the kind is
\* the status byte's, the channel counts from 0, a bend comes as one number.
midiRaw(m) ==
    [source |-> IF m.port = "DAW" THEN "launchkey-daw" ELSE "performance",
     kind |-> FamilyKind(m.family), channel |-> m.channel, data1 |-> m.number,
     data2 |-> m.value, bend |-> m.number + 128 * m.value - 8192]

roleFromDaemon(source) ==
    CASE source = "launchkey-daw" -> "DAW"
      [] source = "performance" -> "MIDI"
      [] OTHER -> "unknown"

decodeBackendRaw(d) ==
    Named([port |-> roleFromDaemon(d.source),
           kind |-> IF d.kind = "note-on" /\ d.data2 = 0 THEN "note-off"
                    ELSE d.kind,
           channel |-> d.channel + 1, number |-> d.data1, control |-> None,
           value |-> CASE d.kind \in {"aftertouch", "program-change"} -> d.data1
                       [] d.kind = "pitch-bend" -> d.bend
                       [] OTHER -> d.data2])

\* A report lists its items by control: those of another port are left out, an
\* old script's line of pressure is read as what it means, and all are put in
\* the order of their times.
flattenInventory(items) ==
    LET kept == SelectSeq(items, LAMBDA x : x.role \in {"daw", "midi"})
        sorted == SortSeq(kept, LAMBDA x, y : x.time < y.time)
        kindOf(x) == IF x.kind = "raw pressure" THEN "poly-aftertouch"
                     ELSE IF x.kind = "note-on" /\ x.value = 0 THEN "note-off"
                     ELSE x.kind
    IN  [i \in 1..Len(sorted) |->
            Named([port |-> IF sorted[i].role = "daw" THEN "DAW" ELSE "MIDI",
                   kind |-> kindOf(sorted[i]), channel |-> sorted[i].channel,
                   number |-> sorted[i].number, value |-> sorted[i].value,
                   control |-> None])]
=============================================================================
